---- MODULE Spec2Model ----
(***************************************************************************)
(* Industry Core Hub backend: the consumer side DTR discovery engine       *)
(* (DtrConsumerMemoryManager).  The DTR cache (known_dtrs), the Shell      *)
(* Index (shell_descriptors) and discover_shells with its retry loop and   *)
(* its fan-out pagination.                                                 *)
(***************************************************************************)
EXTENDS Integers, Sequences, FiniteSets, TLC

VARIABLES
    logger,             \* self.logger is set (TRUE) or None (FALSE)
    verbose,            \* self.verbose
    now,                \* the clock op.get_future_timestamp / op.is_interval_reached read
    known_dtrs,         \* self.known_dtrs: bpn -> [refresh_at, dtrs]; dtrs keeps insertion order
    shell_descriptors,  \* self.shell_descriptors: shell id -> descriptor
    ret,                \* the last finished call: operation, arguments, result, outbound calls
    ds,                 \* the frame of the discover_shells call in progress
    client_cursor,      \* the cursor the client kept from the last response
    _tasks,             \* DiscoveryTaskManager._tasks: task id -> task state
    background_tasks,   \* the execute_discovery coroutines FastAPI was handed: task id -> frame
    _semantic_id_cache, \* HttpSubmodelAdapter._semantic_id_cache: sha256 -> semantic id
    remote_submodels,   \* what the external submodel service stores
    repos,              \* the metadata database: the committed rows of its tables
    threads,            \* the engine call each thread is in, and its position in it
    locks               \* self._dtrs_lock, self._shells_lock, self._list_lock: owner and depth

\* the state of the add-on services, which no operation of the discovery engine touches,
\* and the threads and locks, which an engine operation taken as a whole leaves as
\* it found them
addon_vars == <<_tasks, background_tasks, _semantic_id_cache, remote_submodels, repos, threads, locks>>

vars == <<logger, verbose, now, known_dtrs, shell_descriptors, ret, ds, client_cursor, addon_vars>>

----------------------------------------------------------------------------
(* Bounds of the model *)

MaxTime == 2
MaxLimit == 3
MaxPages == 2

(* Program constants *)

\* expiration_time, in clock ticks of the model
expiration_time == 1

\* max_retries of _process_dtr_with_retry
max_retries == 2

BPNS == {"B1", "B2"}
ASSET_IDS == {"a1", "a2"}
CONNECTOR_URLS == {"u1", "u2"}

----------------------------------------------------------------------------
(* Sequence helpers *)

Range(s) == {s[i] : i \in DOMAIN s}

RECURSIVE SeqSum(_)
SeqSum(s) == IF s = <<>> THEN 0 ELSE Head(s) + SeqSum(Tail(s))

\* dict.keys() of an insertion-ordered dict kept as a sequence of entries
Keys(dtrs) == {dtrs[i].asset_id : i \in DOMAIN dtrs}

\* del dtr_dict[asset_id]
RemoveKey(dtrs, asset_id) == SelectSeq(dtrs, LAMBDA e : e.asset_id # asset_id)

\* dtr_dict[asset_id]
Lookup(dtrs, asset_id) == CHOOSE e \in Range(dtrs) : e.asset_id = asset_id

----------------------------------------------------------------------------
(* The clock *)

\* op.get_future_timestamp(minutes=self.expiration_time)
get_future_timestamp(t) == t + expiration_time

\* op.is_interval_reached(ts)
is_interval_reached(ts, t) == t >= ts

\* DtrConsumerMemoryManager._is_cache_expired
IsCacheExpired(kd, bpn, t) ==
    IF bpn \notin DOMAIN kd THEN TRUE
    ELSE is_interval_reached(kd[bpn].refresh_at, t)

----------------------------------------------------------------------------
(* The DTR cache *)

\* DtrConsumerMemoryManager._create_dtr_cache_entry
CreateDtrCacheEntry(connector_url, asset_id, policies) ==
    [connector_url |-> connector_url, asset_id |-> asset_id, policies |-> policies]

\* the shard of bpn after "if bpn not in self.known_dtrs" and the refresh of the interval
TouchedShard(kd, bpn, t) ==
    [refresh_at |-> get_future_timestamp(t),
     dtrs |-> IF bpn \in DOMAIN kd THEN kd[bpn].dtrs ELSE <<>>]

\* variant of AddedEntries: a duplicate asset_id replaces the stored entry
AddedEntriesOverwriting(dtrs, connector_url, asset_id, policies) ==
    Append(RemoveKey(dtrs, asset_id), CreateDtrCacheEntry(connector_url, asset_id, policies))

\* the entries of the shard after the duplicate test and the insertion
AddedEntries(dtrs, connector_url, asset_id, policies) ==
    IF asset_id \in Keys(dtrs) THEN dtrs
    ELSE Append(dtrs, CreateDtrCacheEntry(connector_url, asset_id, policies))

\* DtrConsumerMemoryManager.add_dtr: the cache after the call. self.logger.debug is
\* called unguarded, so without a logger the call raises before it touches the cache.
AddDtrCache(kd, lg, bpn, connector_url, asset_id, policies, t) ==
    IF ~lg THEN kd
    ELSE LET shard == TouchedShard(kd, bpn, t)
             new == [shard EXCEPT !.dtrs = AddedEntries(@, connector_url, asset_id, policies)]
         IN [b \in DOMAIN kd \cup {bpn} |-> IF b = bpn THEN new ELSE kd[b]]

\* DtrConsumerMemoryManager.delete_dtr: the cache after the call
DeleteDtrCache(kd, bpn, asset_id) ==
    IF bpn \in DOMAIN kd
    THEN [kd EXCEPT ![bpn].dtrs = RemoveKey(@, asset_id)]
    ELSE kd

\* DtrConsumerMemoryManager.purge_bpn: the cache after the call
PurgeBpnCache(kd, bpn) == [b \in DOMAIN kd \ {bpn} |-> kd[b]]

\* DtrConsumerMemoryManager.get_dtr_by_asset_id
GetDtrByAssetIdResult(kd, bpn, asset_id) ==
    IF bpn \notin DOMAIN kd THEN <<>>
    ELSE IF asset_id \in Keys(kd[bpn].dtrs) THEN <<Lookup(kd[bpn].dtrs, asset_id)>>
    ELSE <<>>

\* DtrConsumerMemoryManager.get_dtrs_by_connector
GetDtrsByConnectorResult(kd, bpn, connector_url) ==
    IF bpn \notin DOMAIN kd THEN <<>>
    ELSE SelectSeq(kd[bpn].dtrs, LAMBDA e : e.connector_url = connector_url)

----------------------------------------------------------------------------
(* Upstream catalogs, as the connector answers them *)

\* self.dct_type, the configured type URI
dct_type == "DigitalTwinRegistry"

\* a property read with dataset.get(key, {}): absent reads as the empty dict
Absent == [form |-> "dict", value |-> ""]

\* one property form of DtrConsumerMemoryManager._is_dtr_asset (dict with @id, or string)
PropertyIsDtr(p) == p.form \in {"dict", "str"} /\ p.value = dct_type

\* DtrConsumerMemoryManager._is_dtr_asset
IsDtrAsset(dataset) ==
    PropertyIsDtr(dataset.dct_type) \/ PropertyIsDtr(dataset.dct_type_expanded)

\* DtrConsumerMemoryManager._extract_policies: a policy is a dict (content is what is
\* left of it without @id and @type, "" when nothing is left) or a string
ExtractPolicies(dataset) ==
    LET has_policy == IF dataset.has_policy.is_list THEN dataset.has_policy.items
                      ELSE <<dataset.has_policy.items[1]>>
        kept == SelectSeq(has_policy, LAMBDA p : p.form = "str" \/ p.content # "")
    IN [i \in DOMAIN kept |-> kept[i].content]

PolicyDict(c) == [form |-> "dict", content |-> c]
PolicyStr(c) == [form |-> "str", content |-> c]

Dataset(id, short, expanded, is_list, items) ==
    [id |-> id, dct_type |-> short, dct_type_expanded |-> expanded,
     has_policy |-> [is_list |-> is_list, items |-> items]]

\* the datasets the model's catalogs are made of
DsRegistryA1 == Dataset("a1", [form |-> "dict", value |-> dct_type], Absent,
                        TRUE, <<PolicyDict("p1"), PolicyDict("")>>)
DsRegistryA2 == Dataset("a2", Absent, [form |-> "str", value |-> dct_type],
                        FALSE, <<PolicyStr("p1")>>)
DsOtherAsset == Dataset("a2", [form |-> "str", value |-> "Submodel"], Absent,
                        TRUE, <<PolicyDict("p1")>>)
DsRegistryNoId == Dataset("", [form |-> "dict", value |-> dct_type], Absent, TRUE, <<>>)

\* what get_catalog answers for one connector: it raises, or a catalog carrying an
\* "error" key, or a catalog with datasets
CatalogAnswers(url) ==
    IF url = "u1"
    THEN { [kind |-> "raise", datasets |-> <<>>],
           [kind |-> "error", datasets |-> <<>>],
           [kind |-> "ok", datasets |-> <<DsRegistryA1, DsOtherAsset>>] }
    ELSE { [kind |-> "raise", datasets |-> <<>>],
           [kind |-> "ok", datasets |-> <<DsRegistryNoId, DsRegistryA2, DsRegistryA1>>] }

CATALOG_ANSWERS == UNION {CatalogAnswers(url) : url \in CONNECTOR_URLS}

\* what connector_consumer_manager.get_connectors answers
CONNECTOR_ANSWERS ==
    { [raises |-> TRUE, urls |-> <<>>],
      [raises |-> FALSE, urls |-> <<>>],
      [raises |-> FALSE, urls |-> <<"u1", "u2">>] }

\* the orders in which the catalog threads may have stored their answers
Orders(urls) ==
    {o \in [1..Len(urls) -> Range(urls)] : \A i, j \in 1..Len(urls) : i # j => o[i] # o[j]}

----------------------------------------------------------------------------
(* get_dtrs *)

\* the loop over the datasets of one catalog in get_dtrs
RECURSIVE AddDatasets(_, _, _, _, _)
AddDatasets(kd, bpn, connector_url, datasets, t) ==
    IF datasets = <<>> THEN kd
    ELSE LET d == Head(datasets)
             next == IF IsDtrAsset(d) /\ d.id # ""
                     THEN AddDtrCache(kd, TRUE, bpn, connector_url, d.id, ExtractPolicies(d), t)
                     ELSE kd
         IN AddDatasets(next, bpn, connector_url, Tail(datasets), t)

\* the loop over catalogs.items() in get_dtrs; a catalog whose thread raised is not in
\* the dict, one with an "error" key is skipped
RECURSIVE AddCatalogs(_, _, _, _, _)
AddCatalogs(kd, bpn, order, cats, t) ==
    IF order = <<>> THEN kd
    ELSE LET url == Head(order)
             next == IF cats[url].kind = "ok"
                     THEN AddDatasets(kd, bpn, url, cats[url].datasets, t)
                     ELSE kd
         IN AddCatalogs(next, bpn, Tail(order), cats, t)

\* variant of CacheHit: the expiry of the shard is not looked at
CacheHitIgnoringExpiry(kd, bpn, t) ==
    /\ bpn \in DOMAIN kd
    /\ Len(kd[bpn].dtrs) > 0

\* the cached branch of get_dtrs is taken
CacheHit(kd, bpn, t) ==
    /\ bpn \in DOMAIN kd
    /\ ~IsCacheExpired(kd, bpn, t)
    /\ Len(kd[bpn].dtrs) > 0

\* the discovery of get_dtrs runs: it is nested in "if(self.logger and self.verbose)"
DiscoveryRuns(lg, vb) == lg /\ vb

CallConnectors(bpn) == [call |-> "get_connectors", target |-> bpn]
CallCatalog(url) == [call |-> "get_catalog", target |-> url]

\* DtrConsumerMemoryManager.get_dtrs: cache after the call, returned list (is_none when
\* the function falls off its end), outbound calls made
GetDtrsOutcome(kd, lg, vb, bpn, t, conn, cats, order) ==
    IF CacheHit(kd, bpn, t)
    THEN [kd |-> kd, result |-> kd[bpn].dtrs, is_none |-> FALSE, calls |-> <<>>]
    ELSE IF ~DiscoveryRuns(lg, vb)
    THEN [kd |-> kd, result |-> <<>>, is_none |-> TRUE, calls |-> <<>>]
    ELSE IF conn.raises \/ conn.urls = <<>>
    THEN [kd |-> kd, result |-> <<>>, is_none |-> FALSE, calls |-> <<CallConnectors(bpn)>>]
    ELSE LET after == AddCatalogs(kd, bpn, order, cats, t)
         IN [kd |-> after,
             result |-> IF bpn \in DOMAIN after THEN after[bpn].dtrs ELSE <<>>,
             is_none |-> FALSE,
             calls |-> <<CallConnectors(bpn)>>
                       \o [i \in DOMAIN conn.urls |-> CallCatalog(conn.urls[i])]]

----------------------------------------------------------------------------
(* Pagination manager: PageState, DtrPaginationState and the cursor codec.        *)
(* An optional value is kept as a sequence: <<>> is None, <<v>> is the value v.   *)

\* DtrPaginationState(asset_id): no cursor, not exhausted
DtrPaginationState(asset_id) == [asset_id |-> asset_id, cursor |-> <<>>, exhausted |-> FALSE]

\* PageState(dtr_states, page_number, limit, previous_state)
PageState(dtr_states, page_number, limit, previous_state) ==
    [dtr_states |-> dtr_states, page_number |-> page_number, limit |-> limit,
     previous_state |-> previous_state]

\* dtr_states.get(asset_id, default)
StateOf(dtr_states, asset_id, default) ==
    IF asset_id \in DOMAIN dtr_states THEN dtr_states[asset_id] ELSE default

\* the dict of dtr states as the list of its items
RECURSIVE StateItems(_)
StateItems(dtr_states) ==
    IF DOMAIN dtr_states = {} THEN <<>>
    ELSE LET a == CHOOSE x \in DOMAIN dtr_states : TRUE
             rest == [b \in DOMAIN dtr_states \ {a} |-> dtr_states[b]]
         IN <<dtr_states[a]>> \o StateItems(rest)

\* PaginationManager.encode_page_token: the page state serialised to a token, the
\* previous states nested in it
RECURSIVE encode_page_token(_)
encode_page_token(page) ==
    <<"page", page.page_number, page.limit, StateItems(page.dtr_states),
      IF page.previous_state = <<>> THEN <<>>
      ELSE <<encode_page_token(page.previous_state[1])>> >>

\* PaginationManager.decode_page_token
RECURSIVE decode_page_token(_)
decode_page_token(token) ==
    PageState([a \in {token[4][i].asset_id : i \in DOMAIN token[4]} |->
                   CHOOSE st \in Range(token[4]) : st.asset_id = a],
              token[2], token[3],
              IF token[5] = <<>> THEN <<>> ELSE <<decode_page_token(token[5][1])>>)

\* PaginationManager.is_cursor_compatible: incompatible iff the cursor carries a
\* different limit
is_cursor_compatible(page, limit) == page.limit = limit

\* PaginationManager.distribute_limit: the budget divided evenly, rounded up
distribute_limit(total_limit, active_dtrs) ==
    IF active_dtrs = 0 THEN total_limit
    ELSE (total_limit + active_dtrs - 1) \div active_dtrs

\* PaginationManager.has_more_data: at least one state is not exhausted
has_more_data(dtr_states) == \E a \in DOMAIN dtr_states : ~dtr_states[a].exhausted

\* Python truth of an optional int: None and 0 are false
Truthy(limit) == limit # <<>> /\ limit[1] # 0

----------------------------------------------------------------------------
(* The registries behind the DTR assets *)

SHELL_IDS == {"s1", "s2", "s3", "s4", "s5"}

\* the shell ids each registry holds for the query, in its order
Holdings(asset_id) == IF asset_id = "a1" THEN <<"s1", "s2", "s3">> ELSE <<"s4", "s5">>

\* POST /lookup/shellsByAssetLink?limit=&cursor= answered with 200: the result page and
\* the cursor of the paging metadata (the offset of the next id, absent on the last page)
LookupAnswer(asset_id, limit, cursor) ==
    LET all == Holdings(asset_id)
        start == IF cursor = <<>> THEN 0 ELSE cursor[1]
        stop == IF limit = <<>> \/ start + limit[1] > Len(all) THEN Len(all)
                ELSE start + limit[1]
    IN [result |-> SubSeq(all, start + 1, stop),
        cursor |-> IF stop < Len(all) THEN <<stop>> ELSE <<>>]

\* the shell descriptor GET /shell-descriptors/{base64(id)} answers
ShellDescriptor(shell_id, asset_id) == [id |-> shell_id, registry |-> asset_id]

\* what one attempt of _process_dtr_with_retry meets upstream
ATTEMPT_OUTCOMES == {"negotiation_raises", "lookup_not_200", "ok"}

----------------------------------------------------------------------------
(* discover_shells *)

\* the frame of no call in progress
IdleFrame == [pc |-> "idle"]

\* policies_to_use of _process_dtr_with_retry
PoliciesToUse(dtr_policies, dtr) == IF dtr_policies # <<>> THEN dtr_policies ELSE dtr.policies

\* hashlib.sha3_256(str(x)).hexdigest()
Checksum(x) == <<"sha3_256", x>>

\* the filter expression of the DTR type
FilterExpression == <<"dct_type_key", "=", dct_type>>

CallDoDsp(bpn, dtr, policies) ==
    [call |-> "do_dsp", target |-> dtr.asset_id, bpn |-> bpn, url |-> dtr.connector_url,
     query |-> FilterExpression, policies |-> policies]
CallLookup(bpn, dtr, ok) ==
    [call |-> IF ok THEN "lookup_200" ELSE "lookup_not_200", target |-> dtr.asset_id,
     bpn |-> bpn, url |-> dtr.connector_url, query |-> <<>>, policies |-> <<>>]
CallDeleteConnection(bpn, dtr, policies) ==
    [call |-> "delete_connection", target |-> dtr.asset_id, bpn |-> bpn,
     url |-> dtr.connector_url, query |-> Checksum(FilterExpression),
     policies |-> Checksum(policies)]

\* the dtr dict _process_dtr_with_retry starts from
InitialDtrResult(dtr) ==
    [connectorUrl |-> dtr.connector_url, assetId |-> dtr.asset_id, status |-> "failed",
     shellsFound |-> 0, shells |-> <<>>, error |-> <<>>, paging_cursor |-> <<>>]

\* the number of DTRs the incoming page state does not mark exhausted
ActiveDtrs(dtrs, page) ==
    Cardinality({i \in DOMAIN dtrs :
        ~StateOf(page.dtr_states, dtrs[i].asset_id, DtrPaginationState("")).exhausted})

\* per_dtr_limit of discover_shells
PerDtrLimit(limit, active_dtrs) ==
    IF Truthy(limit) THEN <<distribute_limit(limit[1], active_dtrs)>> ELSE <<>>

\* the frame when the loop over the DTRs starts. last_calls holds the outbound calls of
\* the latest attempt, negotiated the DTRs do_dsp was called for, attempts_made the
\* number of do_dsp calls for the current DTR, fetched the ids of the descriptors
\* _fetch_shell_descriptors returned
LoopFrame(bpn, dtr_policies, limit, cursor, dtrs, page, calls) ==
    [pc |-> "loop", bpn |-> bpn, dtr_policies |-> dtr_policies, limit |-> limit,
     cursor |-> cursor, dtrs |-> dtrs, i |-> 1, attempt |-> 0, current_page |-> page,
     per_dtr_limit |-> PerDtrLimit(limit, ActiveDtrs(dtrs, page)),
     new_dtr_states |-> <<>>, all_shells |-> <<>>, dtr_results |-> <<>>, calls |-> calls,
     last_calls |-> <<>>, last_outcome |-> "none", attempts_made |-> 0,
     negotiated |-> {}, fetched |-> {}]

\* the total limit is reached after this DTR: truncate and break
LimitReached(limit, all_shells) == Truthy(limit) /\ Len(all_shells) >= limit[1]

\* new_dtr_states[asset_id] = state
WithState(dtr_states, asset_id, state) ==
    [a \in DOMAIN dtr_states \cup {asset_id} |->
        IF a = asset_id THEN state ELSE dtr_states[a]]

\* the pagination state recorded for a processed DTR
NewDtrState(result) ==
    [asset_id |-> result.assetId, cursor |-> result.paging_cursor,
     exhausted |-> result.paging_cursor = <<>>]

\* variant of MergedShells: the merged list is never cut
MergedShellsUncut(all_shells, shells, limit) == all_shells \o shells

\* all_shells after the shells of a DTR were added: all_shells[:limit] once the limit
\* is reached
MergedShells(all_shells, shells, limit) ==
    LET merged == all_shells \o shells
    IN IF LimitReached(limit, merged) THEN SubSeq(merged, 1, limit[1]) ELSE merged

\* variant of AfterDtr: a failed DTR ends the loop
AfterDtrAborting(f, result) ==
    LET stop == LimitReached(f.limit, f.all_shells \o result.shells)
    IN [f EXCEPT !.dtr_results = Append(@, result),
                 !.all_shells = MergedShells(@, result.shells, f.limit),
                 !.new_dtr_states = WithState(@, result.assetId, NewDtrState(result)),
                 !.attempt = 0,
                 !.i = @ + 1,
                 !.pc = IF stop \/ result.status = "failed" THEN "finish" ELSE "loop"]

\* the body of the loop of discover_shells after _process_dtr_with_retry returned
AfterDtr(f, result) ==
    LET stop == LimitReached(f.limit, f.all_shells \o result.shells)
    IN [f EXCEPT !.dtr_results = Append(@, result),
                 !.all_shells = MergedShells(@, result.shells, f.limit),
                 !.new_dtr_states = WithState(@, result.assetId, NewDtrState(result)),
                 !.attempt = 0,
                 !.i = @ + 1,
                 !.pc = IF stop THEN "finish" ELSE "loop"]

\* variant of NewPage: the page state keeps the per-DTR limit
NewPagePerDtrLimit(f) ==
    PageState(f.new_dtr_states, f.current_page.page_number + 1, f.per_dtr_limit,
              <<f.current_page>>)

\* new_page of discover_shells
NewPage(f) ==
    PageState(f.new_dtr_states, f.current_page.page_number + 1, f.limit, <<f.current_page>>)

\* previous_cursor of discover_shells
PreviousCursor(f) ==
    IF f.current_page.previous_state # <<>>
    THEN <<encode_page_token(f.current_page.previous_state[1])>>
    ELSE IF f.current_page.page_number > 0
    THEN <<encode_page_token(PageState(<<>>, f.current_page.page_number - 1, f.limit, <<>>))>>
    ELSE <<>>

\* the response of discover_shells, built from the frame and the Shell Index
Response(f, index) ==
    LET found == SelectSeq(f.all_shells, LAMBDA s : s \in DOMAIN index)
        enabled == f.limit # <<>> \/ f.cursor # <<>>
    IN [shellDescriptors |-> [i \in DOMAIN found |-> index[found[i]]],
        dtrs |-> f.dtr_results,
        shellsFound |-> Len(found),
        error |-> <<>>,
        pagination |-> enabled,
        page |-> IF enabled THEN <<f.current_page.page_number + 1>> ELSE <<>>,
        next |-> IF enabled /\ has_more_data(f.new_dtr_states)
                 THEN <<encode_page_token(NewPage(f))>> ELSE <<>>,
        previous |-> IF enabled THEN PreviousCursor(f) ELSE <<>>]

\* the early returns of discover_shells: a dict with an empty descriptor list, an empty
\* dtrs list and the error; the keys it does not carry read as empty, 0 or absent
ErrorResponse(message) ==
    [shellDescriptors |-> <<>>, dtrs |-> <<>>, shellsFound |-> 0, error |-> message,
     pagination |-> FALSE, page |-> <<>>, next |-> <<>>, previous |-> <<>>]

----------------------------------------------------------------------------
(* State machine *)

NoCall == [op |-> "none"]

Init ==
    /\ logger \in BOOLEAN
    /\ verbose \in BOOLEAN
    /\ now = 0
    /\ known_dtrs = <<>>
    /\ shell_descriptors = <<>>
    /\ ret = NoCall
    /\ ds = IdleFrame
    /\ client_cursor = <<>>
    /\ _tasks = <<>>
    /\ background_tasks = <<>>
    /\ _semantic_id_cache = <<>>
    /\ remote_submodels = {}
    /\ repos = [legal_entity |-> <<>>, catalog_part |-> <<>>, partner_catalog_part |-> <<>>,
                serialized_part |-> <<>>,
                business_partner |-> << [name |-> "BP1", bpnl |-> "B1"] >>]
    /\ threads = [t \in {"T1", "T2"} |-> [op |-> "idle", pc |-> 0]]
    /\ locks = [l \in {"_dtrs_lock", "_shells_lock", "_list_lock"} |->
                    [owner |-> <<>>, count |-> 0]]

Idle == ds.pc = "idle"

\* time passes between two calls
Tick ==
    /\ Idle
    /\ now < MaxTime
    /\ now' = now + 1
    /\ ret' = NoCall
    /\ UNCHANGED <<addon_vars, logger, verbose, known_dtrs, shell_descriptors, ds, client_cursor>>

\* add_dtr(bpn, connector_url, asset_id, policies)
AddDtr(bpn, connector_url, asset_id, policies) ==
    /\ Idle
    /\ known_dtrs' = AddDtrCache(known_dtrs, logger, bpn, connector_url, asset_id, policies, now)
    /\ ret' = [op |-> "add_dtr", bpn |-> bpn, connector_url |-> connector_url,
               asset_id |-> asset_id, policies |-> policies, raised |-> ~logger]
    /\ UNCHANGED <<addon_vars, logger, verbose, now, shell_descriptors, ds, client_cursor>>

\* delete_dtr(bpn, asset_id); it returns get_known_dtrs()
DeleteDtr(bpn, asset_id) ==
    /\ Idle
    /\ known_dtrs' = IF logger THEN DeleteDtrCache(known_dtrs, bpn, asset_id) ELSE known_dtrs
    /\ ret' = [op |-> "delete_dtr", bpn |-> bpn, asset_id |-> asset_id, raised |-> ~logger]
    /\ UNCHANGED <<addon_vars, logger, verbose, now, shell_descriptors, ds, client_cursor>>

\* purge_bpn(bpn)
PurgeBpn(bpn) ==
    /\ Idle
    /\ known_dtrs' = IF logger THEN PurgeBpnCache(known_dtrs, bpn) ELSE known_dtrs
    /\ ret' = [op |-> "purge_bpn", bpn |-> bpn, raised |-> ~logger]
    /\ UNCHANGED <<addon_vars, logger, verbose, now, shell_descriptors, ds, client_cursor>>

\* purge_cache()
PurgeCache ==
    /\ Idle
    /\ known_dtrs' = IF logger THEN <<>> ELSE known_dtrs
    /\ shell_descriptors' = IF logger THEN <<>> ELSE shell_descriptors
    /\ ret' = [op |-> "purge_cache", raised |-> ~logger]
    /\ UNCHANGED <<addon_vars, logger, verbose, now, ds, client_cursor>>

\* get_dtr_by_asset_id(bpn, asset_id); result holds the entry, or nothing for None
GetDtrByAssetId(bpn, asset_id) ==
    /\ Idle
    /\ ret' = [op |-> "get_dtr_by_asset_id", bpn |-> bpn, asset_id |-> asset_id,
               result |-> GetDtrByAssetIdResult(known_dtrs, bpn, asset_id),
               discovered |-> FALSE]
    /\ UNCHANGED <<addon_vars, logger, verbose, now, known_dtrs, shell_descriptors, ds, client_cursor>>

\* get_known_dtrs(): a deep copy of the whole cache
GetKnownDtrs ==
    /\ Idle
    /\ ret' = [op |-> "get_known_dtrs", copy |-> known_dtrs, discovered |-> FALSE]
    /\ UNCHANGED <<addon_vars, logger, verbose, now, known_dtrs, shell_descriptors, ds, client_cursor>>

\* get_dtrs_by_connector(bpn, connector_url)
GetDtrsByConnector(bpn, connector_url) ==
    /\ Idle
    /\ ret' = [op |-> "get_dtrs_by_connector", bpn |-> bpn, connector_url |-> connector_url,
               result |-> GetDtrsByConnectorResult(known_dtrs, bpn, connector_url),
               discovered |-> FALSE]
    /\ UNCHANGED <<addon_vars, logger, verbose, now, known_dtrs, shell_descriptors, ds, client_cursor>>

\* the upstream answers one discovery of get_dtrs may meet
Upstreams ==
    {u \in [conn : CONNECTOR_ANSWERS, cats : [CONNECTOR_URLS -> CATALOG_ANSWERS],
            order : UNION {Orders(c.urls) : c \in CONNECTOR_ANSWERS}] :
        /\ Len(u.order) = Len(u.conn.urls)
        /\ \A url \in CONNECTOR_URLS : u.cats[url] \in CatalogAnswers(url)
        /\ \A url \in CONNECTOR_URLS \ Range(u.conn.urls) : u.cats[url].kind = "raise"}

\* the answers that matter when no discovery runs
NoUpstream ==
    [conn |-> [raises |-> TRUE, urls |-> <<>>],
     cats |-> [url \in CONNECTOR_URLS |-> [kind |-> "raise", datasets |-> <<>>]],
     order |-> <<>>]

\* the upstream answers of the set get_dtrs may meet in the current state
UpstreamsFor(bpn, answers) ==
    IF CacheHit(known_dtrs, bpn, now) \/ ~DiscoveryRuns(logger, verbose)
    THEN {NoUpstream} ELSE answers

\* get_dtrs(bpn), the upstream answering u
GetDtrs(bpn, u) ==
    /\ Idle
    /\ LET out == GetDtrsOutcome(known_dtrs, logger, verbose, bpn, now, u.conn, u.cats, u.order)
       IN /\ known_dtrs' = out.kd
          /\ ret' = [op |-> "get_dtrs", bpn |-> bpn, result |-> out.result,
                     is_none |-> out.is_none, calls |-> out.calls, upstream |-> u,
                     discovered |-> out.calls # <<>>]
    /\ UNCHANGED <<addon_vars, logger, verbose, now, shell_descriptors, ds, client_cursor>>

----------------------------------------------------------------------------
(* discover_shells, step by step: the call up to the loop, one step per DTR and   *)
(* per attempt of _process_dtr_with_retry, and the construction of the response   *)

\* the record of a finished discover_shells call
ShellsReturn(bpn, dtr_policies, limit, cursor, dtrs, response, calls, negotiated) ==
    [op |-> "discover_shells", bpn |-> bpn, dtr_policies |-> dtr_policies,
     limit |-> limit, cursor |-> cursor, dtrs |-> dtrs, response |-> response,
     calls |-> calls, negotiated |-> negotiated]

\* the frame of a call that returned and whose response the client has not yet taken
ReturnedFrame == [pc |-> "returned"]

\* the message of the incompatible-cursor return
LimitMismatchMessage ==
    <<"Cursor was created with another limit than the request has.",
      "Please start pagination from the beginning.", "LIMIT_MISMATCH">>

\* the message of the return for a BPN without DTRs
NoDtrsMessage == <<"No DTRs found">>

\* variant of CursorRejected: every cursor is accepted
CursorNeverRejected(cursor, limit) == FALSE

\* the cursor is decoded and found incompatible with the limit of the request
CursorRejected(cursor, limit) ==
    cursor # <<>> /\ ~is_cursor_compatible(decode_page_token(cursor[1]), limit)

\* discover_shells from its entry to the start of the loop: get_dtrs, the "No DTRs
\* found" return, the decoding of the cursor and the compatibility test
DiscoverShellsCall(bpn, dtr_policies, limit, cursor, u) ==
    /\ Idle
    /\ LET out == GetDtrsOutcome(known_dtrs, logger, verbose, bpn, now, u.conn, u.cats, u.order)
           page == IF cursor # <<>> THEN decode_page_token(cursor[1])
                   ELSE PageState(<<>>, 0, limit, <<>>)
       IN /\ known_dtrs' = out.kd
          /\ IF out.result = <<>>
             THEN /\ ret' = ShellsReturn(bpn, dtr_policies, limit, cursor, out.result,
                                         ErrorResponse(NoDtrsMessage), out.calls, {})
                  /\ ds' = ReturnedFrame
             ELSE IF CursorRejected(cursor, limit)
             THEN /\ ret' = ShellsReturn(bpn, dtr_policies, limit, cursor, out.result,
                                         ErrorResponse(LimitMismatchMessage),
                                         out.calls, {})
                  /\ ds' = ReturnedFrame
             ELSE /\ ret' = NoCall
                  /\ ds' = LoopFrame(bpn, dtr_policies, limit, cursor, out.result, page,
                                     out.calls)
    /\ client_cursor' = <<>>
    /\ UNCHANGED <<addon_vars, logger, verbose, now, shell_descriptors>>

\* the head of the loop over the DTRs: leave the loop, skip an exhausted DTR, or enter
\* _process_dtr_with_retry (which returns at once when there are no policies to use)
NextDtr ==
    /\ ds.pc = "loop"
    /\ IF ds.i > Len(ds.dtrs)
       THEN ds' = [ds EXCEPT !.pc = "finish"]
       ELSE LET dtr == ds.dtrs[ds.i]
                state == StateOf(ds.current_page.dtr_states, dtr.asset_id,
                                 DtrPaginationState(dtr.asset_id))
            IN IF state.exhausted
               THEN ds' = [ds EXCEPT !.new_dtr_states = WithState(@, dtr.asset_id, state),
                                     !.i = @ + 1]
               ELSE IF PoliciesToUse(ds.dtr_policies, dtr) = <<>>
               THEN ds' = AfterDtr(ds,
                          [InitialDtrResult(dtr) EXCEPT !.error =
                              <<"No DTR policies provided and no cached policies available">>])
               ELSE ds' = [ds EXCEPT !.pc = "attempt", !.attempt = 0, !.last_calls = <<>>,
                                     !.last_outcome = "none", !.attempts_made = 0]
    /\ UNCHANGED <<addon_vars, logger, verbose, now, known_dtrs, shell_descriptors, ret, client_cursor>>

\* the cache after _delete_connection removed the DTR from known_dtrs
DeleteConnectionCache(kd, bpn, asset_id) == DeleteDtrCache(kd, bpn, asset_id)

\* the dtr dict after a failed attempt: the error is set on the last attempt only
FailedDtrResult(dtr, attempt, outcome) ==
    IF attempt = max_retries
    THEN [InitialDtrResult(dtr) EXCEPT !.error = <<outcome>>]
    ELSE InitialDtrResult(dtr)

\* the dtr dict after the lookup answered 200
ConnectedDtrResult(dtr, answer) ==
    [InitialDtrResult(dtr) EXCEPT !.status = "connected",
                                  !.shellsFound = Len(answer.result),
                                  !.shells = answer.result,
                                  !.paging_cursor = answer.cursor]

\* the Shell Index after the fetched descriptors were stored
StoredShells(index, asset_id, fetched) ==
    [s \in DOMAIN index \cup fetched |->
        IF s \in fetched THEN ShellDescriptor(s, asset_id) ELSE index[s]]

\* variant of LastAttempt: one more iteration
LastAttemptLate(attempt) == attempt = max_retries + 1

\* the attempt was the last one of the retry loop
LastAttempt(attempt) == attempt = max_retries

\* the frame with the outbound calls of one attempt recorded
Attempted(f, asset_id, outcome, calls) ==
    [f EXCEPT !.last_calls = calls, !.last_outcome = outcome,
              !.attempts_made = @ + 1, !.negotiated = @ \cup {asset_id}]

\* one iteration of the retry loop of _process_dtr_with_retry. The loop is reached
\* only with a logger: without one add_dtr raises and get_dtrs discovers nothing, so
\* the cache is empty and the unguarded self.logger.debug calls of _delete_connection
\* and of the descriptor fetch are never met without a logger. A descriptor whose
\* fetch fails is left out of the Shell Index (fetch_failed).
Attempt(outcome, fetch_failed) ==
    /\ ds.pc = "attempt"
    /\ LET dtr == ds.dtrs[ds.i]
           policies == PoliciesToUse(ds.dtr_policies, dtr)
           state == StateOf(ds.current_page.dtr_states, dtr.asset_id,
                            DtrPaginationState(dtr.asset_id))
           answer == LookupAnswer(dtr.asset_id, ds.per_dtr_limit, state.cursor)
           dsp == <<CallDoDsp(ds.bpn, dtr, policies)>>
       IN IF outcome = "ok"
          THEN /\ fetch_failed \in {{}, Range(answer.result)}
               /\ shell_descriptors' = StoredShells(shell_descriptors, dtr.asset_id,
                                                    Range(answer.result) \ fetch_failed)
               /\ known_dtrs' = known_dtrs
               /\ ds' = AfterDtr([Attempted(ds, dtr.asset_id, outcome,
                                            Append(dsp, CallLookup(ds.bpn, dtr, TRUE)))
                                      EXCEPT !.fetched = @ \cup (Range(answer.result) \ fetch_failed)],
                                 ConnectedDtrResult(dtr, answer))
          ELSE /\ fetch_failed = {}
               /\ shell_descriptors' = shell_descriptors
               /\ known_dtrs' = DeleteConnectionCache(known_dtrs, ds.bpn, dtr.asset_id)
               /\ LET met == IF outcome = "lookup_not_200"
                             THEN Append(dsp, CallLookup(ds.bpn, dtr, FALSE)) ELSE dsp
                      calls == Append(met, CallDeleteConnection(ds.bpn, dtr, policies))
                      f == Attempted(ds, dtr.asset_id, outcome, calls)
                  IN IF LastAttempt(ds.attempt)
                     THEN ds' = AfterDtr(f, FailedDtrResult(dtr, ds.attempt, outcome))
                     ELSE ds' = [f EXCEPT !.attempt = @ + 1]
    /\ UNCHANGED <<addon_vars, logger, verbose, now, ret, client_cursor>>

\* the end of discover_shells: the new page state, the descriptors and the pagination
Finish ==
    /\ ds.pc = "finish"
    /\ ret' = ShellsReturn(ds.bpn, ds.dtr_policies, ds.limit, ds.cursor, ds.dtrs,
                           Response(ds, shell_descriptors), ds.calls, ds.negotiated)
    /\ ds' = ReturnedFrame
    /\ UNCHANGED <<addon_vars, logger, verbose, now, known_dtrs, shell_descriptors, client_cursor>>

\* the cursors a client may keep after a response: none, or one the response carries
KeptCursors(response) ==
    {<<>>} \cup {response.next} \cup {response.previous}

\* the client takes the response and keeps one of the cursors it has
TakeResponse ==
    /\ ds.pc = "returned"
    /\ client_cursor' \in KeptCursors(ret.response)
    /\ ret' = NoCall
    /\ ds' = IdleFrame
    /\ UNCHANGED <<addon_vars, logger, verbose, now, known_dtrs, shell_descriptors>>

----------------------------------------------------------------------------
(* The inputs of the calls *)

\* the add_dtr calls of the cache specification
CACHE_ADDS ==
    { <<"B1", "u1", "a1", <<"p1">> >>, <<"B1", "u2", "a1", <<>> >>,
      <<"B1", "u2", "a2", <<"p1">> >>, <<"B2", "u1", "a1", <<"p1">> >> }

\* the add_dtr calls of the discover_shells specification
SHELL_ADDS ==
    { <<"B1", "u1", "a1", <<"p1">> >>, <<"B1", "u2", "a2", <<>> >> }

\* the upstream answers of the discover_shells specification: no connector, or two
\* connectors of which the first answers with its catalog
SHELL_UPSTREAMS ==
    {u \in Upstreams : u.conn.urls = <<>> \/
        (u.order = u.conn.urls /\ u.cats["u1"].kind = "ok" /\ u.cats["u2"].kind = "raise")}

\* limit: None, 0, 1 or MaxLimit
LIMITS == {<<>>, <<0>>, <<1>>, <<MaxLimit>>}

\* dtr_policies: None, or the caller's policies
DTR_POLICIES == {<<>>, <<"p2">>}

\* the cursors a client may send: none, or the one it kept
Cursors ==
    {<<>>} \cup {c \in {client_cursor} : c # <<>> /\ c[1][2] < MaxPages}

NextCache ==
    \/ Tick
    \/ \E a \in CACHE_ADDS : AddDtr(a[1], a[2], a[3], a[4])
    \/ \E asset_id \in ASSET_IDS : DeleteDtr("B1", asset_id)
    \/ \E bpn \in BPNS : PurgeBpn(bpn)
    \/ PurgeCache
    \/ \E bpn \in BPNS : GetDtrByAssetId(bpn, "a1")
    \/ GetKnownDtrs
    \/ \E bpn \in BPNS : GetDtrsByConnector(bpn, "u1")
    \/ \E u \in UpstreamsFor("B1", Upstreams) : GetDtrs("B1", u)

NextShells ==
    \/ \E a \in SHELL_ADDS : AddDtr(a[1], a[2], a[3], a[4])
    \/ PurgeCache
    \/ \E dtr_policies \in DTR_POLICIES, limit \in LIMITS, cursor \in Cursors,
          u \in UpstreamsFor("B1", SHELL_UPSTREAMS) :
           DiscoverShellsCall("B1", dtr_policies, limit, cursor, u)
    \/ NextDtr
    \/ \E outcome \in ATTEMPT_OUTCOMES, fetch_failed \in SUBSET SHELL_IDS :
           Attempt(outcome, fetch_failed)
    \/ Finish
    \/ TakeResponse

Spec == Init /\ [][NextCache]_vars

SpecShells == Init /\ [][NextShells]_vars

----------------------------------------------------------------------------
(* Properties of the DTR cache (specification Spec) *)

\* C1: get_dtrs(BPN) returns exactly the cached entries and makes no connector or
\* catalog call when the BPN has a fresh shard with at least one entry; in every other
\* case it lists the connectors, fetches the catalog of each listed connector, adds
\* every dataset passing the DTR asset test and returns the entries of the shard,
\* whatever logger and verbose are.
C1_GetDtrsContract ==
    [][ret'.op = "get_dtrs" =>
        LET bpn == ret'.bpn
            u == ret'.upstream
            fresh == /\ bpn \in DOMAIN known_dtrs
                     /\ now < known_dtrs[bpn].refresh_at
                     /\ Len(known_dtrs[bpn].dtrs) > 0
        IN IF fresh
           THEN /\ ~ret'.is_none
                /\ ret'.result = known_dtrs[bpn].dtrs
                /\ ret'.calls = <<>>
                /\ known_dtrs' = known_dtrs
           ELSE /\ ~ret'.is_none
                /\ ret'.calls # <<>>
                /\ ret'.calls[1] = CallConnectors(bpn)
                /\ \A url \in Range(u.conn.urls) : CallCatalog(url) \in Range(ret'.calls)
                /\ \A url \in Range(u.conn.urls) :
                       u.cats[url].kind = "ok" =>
                           \A d \in Range(u.cats[url].datasets) :
                               (IsDtrAsset(d) /\ d.id # "") =>
                                   /\ bpn \in DOMAIN known_dtrs'
                                   /\ d.id \in Keys(known_dtrs'[bpn].dtrs)
                /\ ret'.result = IF bpn \in DOMAIN known_dtrs'
                                 THEN known_dtrs'[bpn].dtrs ELSE <<>>
    ]_vars

\* C2 as stated: no read of the cache (get_dtrs, get_dtr_by_asset_id, get_known_dtrs,
\* get_dtrs_by_connector) hands out an entry of an expired shard unless the read ran a
\* re-discovery.
C2_NoReadOfExpiredShard ==
    /\ (/\ ret.op \in {"get_dtrs", "get_dtr_by_asset_id", "get_dtrs_by_connector"}
        /\ ~ret.discovered
        /\ ret.result # <<>>)
       => now < known_dtrs[ret.bpn].refresh_at
    /\ ret.op = "get_known_dtrs" =>
           \A b \in DOMAIN ret.copy :
               ret.copy[b].dtrs # <<>> => now < ret.copy[b].refresh_at

\* C2, amended: get_dtrs never returns entries of an expired shard without running a
\* re-discovery: the entries it returns without any upstream call belong to a shard
\* with now < refresh_at. (The raw lookups do not look at the expiry.)
C2_GetDtrsNeverServesExpired ==
    (/\ ret.op = "get_dtrs"
     /\ ~ret.discovered
     /\ ret.result # <<>>)
    => /\ ret.bpn \in DOMAIN known_dtrs
       /\ now < known_dtrs[ret.bpn].refresh_at
       /\ ret.result = known_dtrs[ret.bpn].dtrs

\* get_dtrs served the cached entries of a shard that was refreshed after time 0
C2_Witness ==
    /\ ret.op = "get_dtrs"
    /\ ~ret.discovered
    /\ ret.result # <<>>
    /\ now > 0

\* C3: add_dtr for a (BPN, asset_id) already cached adds no entry and leaves the stored
\* connector_url and policies unchanged, resets refresh_at of the shard to
\* now + expiration_time, and does not touch the shards of other BPNs.
C3_AddDtrIdempotent ==
    [][(/\ ret'.op = "add_dtr"
        /\ ret'.bpn \in DOMAIN known_dtrs
        /\ ret'.asset_id \in Keys(known_dtrs[ret'.bpn].dtrs))
       => /\ DOMAIN known_dtrs' = DOMAIN known_dtrs
          /\ known_dtrs'[ret'.bpn].dtrs = known_dtrs[ret'.bpn].dtrs
          /\ known_dtrs'[ret'.bpn].refresh_at = now + expiration_time
          /\ \A b \in DOMAIN known_dtrs \ {ret'.bpn} : known_dtrs'[b] = known_dtrs[b]
    ]_vars

\* add_dtr was called, after time 0, for a cached asset with another connector_url and
\* other policies than the stored ones, while another BPN has a shard
C3_Witness ==
    /\ ret.op = "add_dtr"
    /\ ret.bpn = "B1"
    /\ now > 0
    /\ "B2" \in DOMAIN known_dtrs
    /\ "B1" \in DOMAIN known_dtrs
    /\ known_dtrs["B1"].refresh_at = now + expiration_time
    /\ \E e \in Range(known_dtrs["B1"].dtrs) :
           /\ e.asset_id = ret.asset_id
           /\ e.connector_url # ret.connector_url
           /\ e.policies # ret.policies

----------------------------------------------------------------------------
(* Properties of discover_shells (specification SpecShells) *)

\* C4: in a discover_shells call without limit over the DTRs of a BPN, a DTR failing on
\* every attempt does not abort the others: the response lists one entry per DTR, a
\* failed entry carries an error, every DTR with policies to use was negotiated, and
\* the shells of the connected DTRs are returned.
C4_FailureDoesNotAbortOthers ==
    (/\ ret.op = "discover_shells"
     /\ ret.limit = <<>>
     /\ ret.cursor = <<>>
     /\ ret.dtrs # <<>>)
    => LET r == ret.response
       IN /\ Len(r.dtrs) = Len(ret.dtrs)
          /\ \A i \in DOMAIN ret.dtrs :
                 LET e == r.dtrs[i]
                 IN /\ e.assetId = ret.dtrs[i].asset_id
                    /\ e.status = "failed" => e.error # <<>>
                    /\ PoliciesToUse(ret.dtr_policies, ret.dtrs[i]) # <<>>
                           => e.assetId \in ret.negotiated
                    /\ e.status = "connected" =>
                           /\ e.shells = Holdings(e.assetId)
                           /\ \A sh \in Range(e.shells) :
                                  sh \in DOMAIN shell_descriptors =>
                                      shell_descriptors[sh] \in Range(r.shellDescriptors)

\* a call without limit returned: the first DTR failed on every attempt, the second
\* one connected and its shells are in the response
C4_Witness ==
    /\ ret.op = "discover_shells"
    /\ ret.limit = <<>>
    /\ Len(ret.response.dtrs) = 2
    /\ ret.response.dtrs[1].status = "failed"
    /\ ret.response.dtrs[1].assetId \in ret.negotiated
    /\ ret.response.dtrs[2].status = "connected"
    /\ ret.response.shellsFound = Len(Holdings(ret.response.dtrs[2].assetId))

\* C5: for one DTR, do_dsp is attempted at most max_retries + 1 times; a failed attempt
\* (negotiation raises, or lookup answers non-200) ends with delete_connection for the
\* same BPN and connector URL with the checksums of the filter and of the policies;
\* no attempt follows a successful one.
C5_BoundedRetriesWithEviction ==
    ds.pc \in {"loop", "attempt", "finish"} =>
        /\ ds.attempts_made <= max_retries + 1
        /\ ds.last_outcome \in {"negotiation_raises", "lookup_not_200"} =>
               LET first == ds.last_calls[1]
                   last == ds.last_calls[Len(ds.last_calls)]
               IN /\ first.call = "do_dsp"
                  /\ last.call = "delete_connection"
                  /\ last.bpn = first.bpn
                  /\ last.url = first.url
                  /\ last.query = Checksum(first.query)
                  /\ last.policies = Checksum(first.policies)
        /\ ds.last_outcome = "ok" =>
               \A i \in DOMAIN ds.last_calls : ds.last_calls[i].call # "delete_connection"
        /\ ds.pc = "attempt" => ds.last_outcome # "ok"

\* the third attempt for a DTR failed as the two before it
C5_Witness ==
    /\ ds.pc \in {"loop", "finish"}
    /\ ds.attempts_made = max_retries + 1
    /\ ds.last_outcome = "lookup_not_200"

\* C6: discover_shells removes a DTR from the cache only on terminal failure: a DTR
\* whose entry in the response is connected is still cached when the call returns.
C6_RemovedOnlyOnTerminalFailure ==
    ret.op = "discover_shells" =>
        \A i \in DOMAIN ret.response.dtrs :
            ret.response.dtrs[i].status = "connected" =>
                /\ ret.bpn \in DOMAIN known_dtrs
                /\ ret.response.dtrs[i].assetId \in Keys(known_dtrs[ret.bpn].dtrs)

C8_CursorKeepsLimit ==
    ret.op = "discover_shells" =>
        /\ ret.response.next # <<>> =>
               decode_page_token(ret.response.next[1]).limit = ret.limit
        /\ ret.response.previous # <<>> =>
               decode_page_token(ret.response.previous[1]).limit = ret.limit

\* a page reached with a cursor returned a next and a previous cursor
C8_Witness ==
    /\ ret.op = "discover_shells"
    /\ ret.cursor # <<>>
    /\ ret.response.next # <<>>
    /\ ret.response.previous # <<>>

\* C9: with a limit L >= 1 a response holds at most L shells: shellsFound <= L and
\* len(shellDescriptors) <= L, whatever the number of DTRs.
C9_AtMostLimitShells ==
    (/\ ret.op = "discover_shells"
     /\ ret.limit # <<>>
     /\ ret.limit[1] >= 1)
    => /\ ret.response.shellsFound <= ret.limit[1]
       /\ Len(ret.response.shellDescriptors) <= ret.limit[1]

\* the DTRs of a call together found more shells than the limit and the response
\* holds exactly the limit
C9_Witness ==
    /\ ret.op = "discover_shells"
    /\ ret.limit # <<>>
    /\ ret.limit[1] >= 1
    /\ SeqSum([i \in DOMAIN ret.response.dtrs |-> ret.response.dtrs[i].shellsFound])
           > ret.limit[1]
    /\ ret.response.shellsFound = ret.limit[1]
    /\ Len(ret.response.shellDescriptors) = ret.limit[1]

\* C10: discover_shells with limit = 0 returns zero shells whatever the DTRs hold, and
\* still rejects a cursor created with another limit.
C10_LimitZeroReturnsNothing ==
    (/\ ret.op = "discover_shells"
     /\ ret.limit = <<0>>)
    => /\ ret.response.shellsFound = 0
       /\ ret.response.shellDescriptors = <<>>
       /\ (ret.cursor # <<>> /\ decode_page_token(ret.cursor[1]).limit # ret.limit)
              => ret.response.error # <<>>

----------------------------------------------------------------------------
(* discover_shell and the submodel operations: the shells and their submodel       *)
(* descriptors as the registries answer them                                      *)

\* the largest number of submodel descriptors of a shell
MaxSubmodels == 2

\* the submodel descriptors the shells of the model are made of: id (absent for one
\* without "id"), the keys of semanticId, and the SUBMODEL-3.0 endpoint with its href
\* and the fields parsed from its subprotocolBody (absent without a body)
SUBMODEL_DESCRIPTORS ==
    << [id |-> <<"m1">>, keys |-> << [type |-> "T", value |-> "S1"] >>,
        endpoint |-> << [href |-> "h1", body |-> << [id |-> "A", dspEndpoint |-> "cA"] >>] >>],
       [id |-> <<"m2">>, keys |-> << [type |-> "T", value |-> "S2"] >>,
        endpoint |-> << [href |-> "h2", body |-> << [id |-> "A", dspEndpoint |-> "cA"] >>] >>],
       [id |-> <<"m3">>,
        keys |-> << [type |-> "T", value |-> "S1"], [type |-> "T", value |-> "S2"] >>,
        endpoint |-> << [href |-> "h3", body |-> << [id |-> "B", dspEndpoint |-> "cB"] >>] >>],
       [id |-> <<"m1">>, keys |-> << [type |-> "T", value |-> "S1"] >>,
        endpoint |-> << [href |-> "h4", body |-> << [id |-> "B", dspEndpoint |-> "cB"] >>] >>],
       [id |-> <<>>, keys |-> <<>>, endpoint |-> <<>>],
       [id |-> <<>>, keys |-> << [type |-> "T", value |-> "S1"] >>,
        endpoint |-> << [href |-> "h5", body |-> <<>>] >>] >>

\* the shells a registry may hold: up to MaxSubmodels descriptors, in every order for
\* one or two of them and in the order of the list above for more
SHELLS ==
    { [id |-> "s1",
       submodelDescriptors |-> [i \in DOMAIN f |-> SUBMODEL_DESCRIPTORS[f[i]]]] :
        f \in { g \in UNION {[1..n -> DOMAIN SUBMODEL_DESCRIPTORS] : n \in 0..MaxSubmodels} :
                  Len(g) >= 3 => \A i \in 1..(Len(g) - 1) : g[i] <= g[i + 1] } }

\* variant of DiscoverShellLoop: only the first DTR is tried
DiscoverShellFirstDtrOnly(bpn, id, dtr_policies, dtrs, answers, shell, calls) ==
    LET dtr == Head(dtrs)
        dsp == Append(calls, CallDoDsp(bpn, dtr, PoliciesToUse(dtr_policies, dtr)))
    IN IF dtrs # <<>> /\ answers[dtr.asset_id] = "found"
       THEN [status |-> <<>>, error |-> <<>>, shell_descriptor |-> <<shell>>,
             dtr |-> << [connectorUrl |-> dtr.connector_url, assetId |-> dtr.asset_id] >>,
             calls |-> dsp]
       ELSE [status |-> <<404>>, error |-> <<"Shell not found in any DTR of this counterPartyId">>,
             shell_descriptor |-> <<>>, dtr |-> <<>>, calls |-> calls]

\* the loop over the DTRs of discover_shell: first match wins, a DTR that raises is
\* skipped; calls are the outbound calls made so far, and answers tells of each DTR
\* whether do_dsp raises ("negotiation_raises"), the GET of the descriptor raises
\* ("fetch_raises"), it answers non-200 ("not_found") or 200 with the shell ("found")
RECURSIVE DiscoverShellLoop(_, _, _, _, _, _, _)
DiscoverShellLoop(bpn, id, dtr_policies, dtrs, answers, shell, calls) ==
    IF dtrs = <<>>
    THEN [status |-> <<404>>, error |-> <<"Shell not found in any DTR of this counterPartyId">>,
          shell_descriptor |-> <<>>, dtr |-> <<>>, calls |-> calls]
    ELSE LET dtr == Head(dtrs)
             dsp == Append(calls, CallDoDsp(bpn, dtr, PoliciesToUse(dtr_policies, dtr)))
             get == Append(dsp, [call |-> "get_shell_descriptor", target |-> dtr.asset_id,
                                 bpn |-> bpn, url |-> dtr.connector_url, query |-> <<id>>,
                                 policies |-> <<>>])
         IN IF answers[dtr.asset_id] = "negotiation_raises"
            THEN DiscoverShellLoop(bpn, id, dtr_policies, Tail(dtrs), answers, shell, dsp)
            ELSE IF answers[dtr.asset_id] = "found"
            THEN [status |-> <<>>, error |-> <<>>, shell_descriptor |-> <<shell>>,
                  dtr |-> << [connectorUrl |-> dtr.connector_url, assetId |-> dtr.asset_id] >>,
                  calls |-> get]
            ELSE DiscoverShellLoop(bpn, id, dtr_policies, Tail(dtrs), answers, shell, get)

\* discover_shell after get_dtrs returned dtrs
DiscoverShellResult(bpn, id, dtr_policies, dtrs, answers, shell) ==
    IF dtrs = <<>>
    THEN [status |-> <<404>>, error |-> <<"No DTRs found for this counterPartyId">>,
          shell_descriptor |-> <<>>, dtr |-> <<>>, calls |-> <<>>]
    ELSE IF id = ""
    THEN [status |-> <<400>>, error |-> <<"No shell ID provided">>,
          shell_descriptor |-> <<>>, dtr |-> <<>>, calls |-> <<>>]
    ELSE DiscoverShellLoop(bpn, id, dtr_policies, dtrs, answers, shell, <<>>)

\* discover_shell(bpn, id, dtr_policies), the upstream answering u and the DTRs answers
DiscoverShell(bpn, id, dtr_policies, u, answers, shell) ==
    /\ Idle
    /\ LET out == GetDtrsOutcome(known_dtrs, logger, verbose, bpn, now, u.conn, u.cats, u.order)
       IN /\ known_dtrs' = out.kd
          /\ ret' = [op |-> "discover_shell", bpn |-> bpn, id |-> id,
                     dtr_policies |-> dtr_policies, dtrs |-> out.result, answers |-> answers,
                     shell |-> shell,
                     result |-> DiscoverShellResult(bpn, id, dtr_policies, out.result,
                                                    answers, shell)]
    /\ ds' = ReturnedFrame
    /\ UNCHANGED <<addon_vars, logger, verbose, now, shell_descriptors, client_cursor>>

----------------------------------------------------------------------------
(* discover_submodels: the descriptors of the resolved shell, the queue of the     *)
(* pending ones, one negotiation for each asset and one fetch for each queued item *)

\* governance of the batch operations: None, {} or policies for some semantic ids,
\* each semantic id with policies of its own
GOVERNANCES ==
    { <<>>, << <<>> >>, << [sid \in {"S1"} |-> <<"g1">>] >>,
      << [sid \in {"S1", "S2"} |-> IF sid = "S1" THEN <<"g1">> ELSE <<"g2">>] >> }

\* what the counterparty does during one call: the outcome of the negotiation of each
\* asset (a token, no token, or an exception; B never answers without a token), the
\* hrefs that answer no data, and whether the parallel tasks complete in
\* the order of their submission or in the opposite one (the order is varied where
\* some href answers no data)
ENVIRONMENTS ==
    { e \in [negotiation : {n \in [{"A", "B"} -> {"token", "none", "raise"}] : n["B"] # "none"},
             empty_hrefs : {{}, {"h2", "h4"}},
             reversed : BOOLEAN] : e.reversed => e.empty_hrefs # {} }

\* the order in which as_completed yields the futures
Completed(tasks, reversed) ==
    IF reversed THEN [i \in DOMAIN tasks |-> tasks[Len(tasks) + 1 - i]] ELSE tasks

\* submodel.get("id", "unknown")
SubmodelId(submodel) == IF submodel.id = <<>> THEN "unknown" ELSE submodel.id[1]

\* _extract_semantic_id: the value of the first key, or None
ExtractSemanticId(submodel) ==
    IF submodel.keys = <<>> THEN <<>> ELSE <<submodel.keys[1].value>>

\* _extract_submodel_endpoint_info: href, and asset id and connector of the body
ExtractSubmodelEndpointInfo(submodel) ==
    IF submodel.endpoint = <<>>
    THEN [asset_id |-> "unknown", connector_url |-> "unknown", href |-> "unknown"]
    ELSE LET e == submodel.endpoint[1]
         IN [asset_id |-> IF e.body = <<>> THEN "unknown" ELSE e.body[1].id,
             connector_url |-> IF e.body = <<>> THEN "unknown" ELSE e.body[1].dspEndpoint,
             href |-> e.href]

\* variant of DetermineSubmodelStatus: a missing semantic id counts as missing governance
DetermineSubmodelStatusNoError(semantic_id, governance) ==
    IF semantic_id = <<>> \/ governance = <<>> \/ governance[1] = <<>>
    THEN "governance_not_found"
    ELSE IF semantic_id[1] \notin DOMAIN governance[1] THEN "governance_not_found"
    ELSE "pending"

\* _determine_submodel_status, governance a dict of the semantic ids
DetermineSubmodelStatus(semantic_id, governance) ==
    IF semantic_id = <<>> THEN "error"
    ELSE IF governance = <<>> \/ governance[1] = <<>> \/ semantic_id[1] \notin DOMAIN governance[1]
    THEN "governance_not_found"
    ELSE "pending"

\* the descriptor of the response for one submodel of the shell
Descriptor(submodel, status) ==
    [submodelId |-> SubmodelId(submodel),
     semanticId |-> ExtractSemanticId(submodel),
     semanticIdKeys |-> IF submodel.keys = <<>> THEN <<>> ELSE <<"base64", submodel.keys>>,
     assetId |-> ExtractSubmodelEndpointInfo(submodel).asset_id,
     connectorUrl |-> ExtractSubmodelEndpointInfo(submodel).connector_url,
     href |-> ExtractSubmodelEndpointInfo(submodel).href,
     status |-> status,
     error |-> IF status = "error" /\ ExtractSemanticId(submodel) = <<>>
               THEN <<"No semantic ID found in submodel descriptor">> ELSE <<>>]

\* the item queued for a pending submodel
QueueItem(submodel, policies) ==
    [submodel_id |-> SubmodelId(submodel), semantic_id |-> ExtractSemanticId(submodel)[1],
     policies |-> policies,
     assetId |-> ExtractSubmodelEndpointInfo(submodel).asset_id,
     connectorUrl |-> ExtractSubmodelEndpointInfo(submodel).connector_url,
     href |-> ExtractSubmodelEndpointInfo(submodel).href]

\* response["submodelDescriptors"][submodel_id] = descriptor for every submodel of the
\* list in turn: a dict, so the last descriptor of an id is the one that stays
DescriptorsById(submodels, statuses) ==
    [id \in {SubmodelId(submodels[i]) : i \in DOMAIN submodels} |->
        LET last == CHOOSE i \in DOMAIN submodels :
                        /\ SubmodelId(submodels[i]) = id
                        /\ \A j \in DOMAIN submodels :
                               SubmodelId(submodels[j]) = id => j <= i
        IN Descriptor(submodels[last], statuses[last])]

\* variant of GroupSubmodelsByAsset: every item is a group of its own
GroupPerItem(submodels_to_fetch) ==
    LET real == SelectSeq(submodels_to_fetch, LAMBDA item : item.assetId # "unknown")
    IN [i \in DOMAIN real |->
          [assetId |-> real[i].assetId, connectorUrl |-> real[i].connectorUrl,
           policies |-> real[i].policies, submodels |-> <<real[i]>>]]

\* _group_submodels_by_asset: the assets in the order of their first item, each with
\* the connector and the policies of its first item and all its items
GroupSubmodelsByAsset(submodels_to_fetch) ==
    LET real == SelectSeq(submodels_to_fetch, LAMBDA item : item.assetId # "unknown")
        firsts == {i \in DOMAIN real : \A j \in 1..(i - 1) : real[j].assetId # real[i].assetId}
        RECURSIVE Groups(_)
        Groups(i) ==
            IF i > Len(real) THEN <<>>
            ELSE IF i \in firsts
            THEN << [assetId |-> real[i].assetId, connectorUrl |-> real[i].connectorUrl,
                     policies |-> real[i].policies,
                     submodels |-> SelectSeq(real, LAMBDA item : item.assetId = real[i].assetId)] >>
                 \o Groups(i + 1)
            ELSE Groups(i + 1)
    IN Groups(1)

\* _negotiate_assets_parallel with _negotiate_asset: one do_dsp_by_asset_id for each
\* asset; the tokens of the assets that negotiated, the error texts of the others
NegotiateAssetsParallel(bpn, assets_to_negotiate, negotiation) ==
    [asset_tokens |->
        [a \in {g.assetId : g \in {h \in Range(assets_to_negotiate) :
                                     negotiation[h.assetId] = "token"}} |-> <<"token", a>>],
     asset_errors |->
        [a \in {g.assetId : g \in {h \in Range(assets_to_negotiate) :
                                     negotiation[h.assetId] # "token"}} |->
            IF negotiation[a] = "none"
            THEN <<"Asset negotiation failed. You may not have enough access permissions to this submodel.">>
            ELSE <<"Asset negotiation failed. You may not have enough access permissions to this submodel.",
                   "exception", a>>],
     calls |-> [i \in DOMAIN assets_to_negotiate |->
                  [call |-> "do_dsp_by_asset_id", target |-> assets_to_negotiate[i].assetId,
                   bpn |-> bpn, url |-> assets_to_negotiate[i].connectorUrl, query |-> <<>>,
                   policies |-> assets_to_negotiate[i].policies]]]

\* _mark_failed_negotiations: every item of a failed asset gets status error and the
\* text of its asset, written by submodel id, the failed assets in the order of a set
MarkFailedNegotiations(assets_to_negotiate, asset_tokens, asset_errors, descriptors, reversed) ==
    LET failed == Completed(SelectSeq(assets_to_negotiate,
                                      LAMBDA g : g.assetId \notin DOMAIN asset_tokens), reversed)
        Marks(id) == {k \in DOMAIN failed :
                         \E item \in Range(failed[k].submodels) : item.submodel_id = id}
    IN [id \in DOMAIN descriptors |->
          IF Marks(id) = {} THEN descriptors[id]
          ELSE LET k == CHOOSE k \in Marks(id) : \A j \in Marks(id) : j <= k
               IN [descriptors[id] EXCEPT !.status = "error",
                                          !.error = <<asset_errors[failed[k].assetId]>>]]

\* _fetch_data_parallel with _fetch_submodel_data_with_token: one GET href for each
\* item whose asset has a token; the results are written by submodel id as the
\* fetches complete
FetchDataParallel(submodels_to_fetch, asset_tokens, response, env) ==
    LET fetch_tasks == SelectSeq(submodels_to_fetch,
                                 LAMBDA item : item.assetId \in DOMAIN asset_tokens)
        done == Completed(fetch_tasks, env.reversed)
        Data(item) == item.href \notin env.empty_hrefs
        LastOf(id, tasks) == CHOOSE i \in tasks : \A j \in tasks : j <= i
        Of(id) == {i \in DOMAIN done : done[i].submodel_id = id}
        WithData(id) == {i \in Of(id) : Data(done[i])}
    IN [response EXCEPT
          !.submodels =
              [id \in DOMAIN response.submodels \cup
                      {done[i].submodel_id : i \in {j \in DOMAIN done : Data(done[j])}} |->
                  IF WithData(id) = {} THEN response.submodels[id]
                  ELSE <<"data", done[LastOf(id, WithData(id))].href>>],
          !.submodelDescriptors =
              [id \in DOMAIN response.submodelDescriptors |->
                  IF Of(id) = {} THEN response.submodelDescriptors[id]
                  ELSE IF Data(done[LastOf(id, Of(id))])
                  THEN [response.submodelDescriptors[id] EXCEPT !.status = "success"]
                  ELSE [response.submodelDescriptors[id] EXCEPT
                            !.status = "error", !.error = <<"Data fetch returned no data">>]],
          !.calls = response.calls \o
              [i \in DOMAIN fetch_tasks |->
                  [call |-> "get_href", target |-> fetch_tasks[i].href, bpn |-> "",
                   url |-> fetch_tasks[i].href, query |-> asset_tokens[fetch_tasks[i].assetId],
                   policies |-> <<>>]]]

\* variant of MarkRemainingPendingAsFailed: what is pending stays pending
LeavePending(submodels_to_fetch, descriptors) == descriptors

\* _mark_remaining_pending_as_failed
MarkRemainingPendingAsFailed(submodels_to_fetch, descriptors) ==
    [id \in DOMAIN descriptors |->
        IF descriptors[id].status = "pending" /\
           \E item \in Range(submodels_to_fetch) : item.submodel_id = id
        THEN [descriptors[id] EXCEPT !.status = "error",
                                     !.error = <<"Processing was not completed">>]
        ELSE descriptors[id]]

\* _fetch_submodels_data: group, negotiate, mark the failed assets, fetch, and mark
\* what is still pending
FetchSubmodelsData(bpn, submodels_to_fetch, response, env) ==
    LET assets_to_negotiate == GroupSubmodelsByAsset(submodels_to_fetch)
        negotiated == NegotiateAssetsParallel(bpn, assets_to_negotiate, env.negotiation)
        marked == [response EXCEPT
                     !.submodelDescriptors =
                         MarkFailedNegotiations(assets_to_negotiate, negotiated.asset_tokens,
                                                negotiated.asset_errors, @, env.reversed),
                     !.calls = @ \o negotiated.calls]
        fetched == FetchDataParallel(submodels_to_fetch, negotiated.asset_tokens, marked, env)
    IN [fetched EXCEPT
          !.submodelDescriptors = MarkRemainingPendingAsFailed(submodels_to_fetch, @)]

\* discover_submodels after discover_shell returned shell_result
DiscoverSubmodelsResult(bpn, shell_result, governance, env) ==
    IF shell_result.shell_descriptor = <<>>
    THEN [status |-> <<"error">>, error |-> shell_result.error, submodelDescriptors |-> <<>>,
          submodels |-> <<>>, submodelsFound |-> 0, dtr |-> <<>>, calls |-> shell_result.calls]
    ELSE LET submodel_descriptors == shell_result.shell_descriptor[1].submodelDescriptors
             statuses == [i \in DOMAIN submodel_descriptors |->
                            DetermineSubmodelStatus(ExtractSemanticId(submodel_descriptors[i]),
                                                    governance)]
             pending == {i \in DOMAIN submodel_descriptors : statuses[i] = "pending"}
             RECURSIVE Queue(_)
             Queue(i) ==
                 IF i > Len(submodel_descriptors) THEN <<>>
                 ELSE IF i \in pending
                 THEN << QueueItem(submodel_descriptors[i],
                                   governance[1][ExtractSemanticId(submodel_descriptors[i])[1]]) >>
                      \o Queue(i + 1)
                 ELSE Queue(i + 1)
             response == [status |-> <<>>, error |-> <<>>,
                          submodelDescriptors |-> DescriptorsById(submodel_descriptors, statuses),
                          submodels |-> <<>>, submodelsFound |-> Len(submodel_descriptors),
                          dtr |-> shell_result.dtr, calls |-> shell_result.calls]
         IN IF submodel_descriptors = <<>>
            THEN [response EXCEPT !.error = <<"No submodels found in shell">>]
            ELSE IF Queue(1) = <<>> THEN response
            ELSE FetchSubmodelsData(bpn, Queue(1), response, env)

\* the answers of the DTRs in the submodel operations: every DTR has the shell, or the
\* DTR a1 cannot be reached and a2 has the shell
SUBMODEL_ANSWERS ==
    { [a \in ASSET_IDS |-> "found"],
      [a \in ASSET_IDS |-> IF a = "a1" THEN "negotiation_raises" ELSE "found"] }

\* discover_submodels(bpn, id, dtr_policies, governance)
DiscoverSubmodels(bpn, id, dtr_policies, governance, u, answers, shell, env) ==
    /\ Idle
    /\ LET out == GetDtrsOutcome(known_dtrs, logger, verbose, bpn, now, u.conn, u.cats, u.order)
           shell_result == DiscoverShellResult(bpn, id, dtr_policies, out.result, answers, shell)
       IN /\ known_dtrs' = out.kd
          /\ ret' = [op |-> "discover_submodels", bpn |-> bpn, id |-> id,
                     governance |-> governance, shell_result |-> shell_result,
                     negotiation |-> env.negotiation, empty_hrefs |-> env.empty_hrefs,
                     result |-> DiscoverSubmodelsResult(bpn, shell_result, governance, env)]
    /\ ds' = ReturnedFrame
    /\ UNCHANGED <<addon_vars, logger, verbose, now, shell_descriptors, client_cursor>>

----------------------------------------------------------------------------
(* discover_submodel_by_semantic_ids: the descriptors of the shell that carry all  *)
(* the wanted semantic ids                                                        *)

\* _extract_all_semantic_ids: the keys that have a type and a value
ExtractAllSemanticIds(submodel) ==
    SelectSeq(submodel.keys, LAMBDA key : key.type # "" /\ key.value # "")

\* _semantic_ids_match: no target never matches, else every target is among the keys
SemanticIdsMatch(submodel_semantic_ids, target_semantic_ids) ==
    /\ target_semantic_ids # <<>>
    /\ {<<sid.type, sid.value>> : sid \in Range(target_semantic_ids)}
           \subseteq {<<sid.type, sid.value>> : sid \in Range(submodel_semantic_ids)}

\* _determine_single_submodel_status, governance a list of policies
DetermineSingleSubmodelStatus(semantic_id, governance) ==
    IF semantic_id = <<>> THEN "error"
    ELSE IF governance = <<>> \/ governance[1] = <<>> THEN "governance_not_found"
    ELSE "pending"

\* discover_submodel_by_semantic_ids after discover_shell returned shell_result
DiscoverSubmodelBySemanticIdsResult(bpn, shell_result, governance, semantic_ids, env) ==
    IF shell_result.shell_descriptor = <<>>
    THEN [status |-> <<"error">>, error |-> shell_result.error, submodelDescriptors |-> <<>>,
          submodels |-> <<>>, submodelsFound |-> 0, dtr |-> <<>>, calls |-> shell_result.calls]
    ELSE LET submodel_descriptors == shell_result.shell_descriptor[1].submodelDescriptors
             found_submodels ==
                 SelectSeq(submodel_descriptors,
                           LAMBDA submodel : SemanticIdsMatch(ExtractAllSemanticIds(submodel),
                                                              semantic_ids))
             statuses == [i \in DOMAIN found_submodels |->
                            DetermineSingleSubmodelStatus(ExtractSemanticId(found_submodels[i]),
                                                          governance)]
             submodels_to_fetch ==
                 [i \in DOMAIN SelectSeq(found_submodels,
                                         LAMBDA submodel :
                                             DetermineSingleSubmodelStatus(
                                                 ExtractSemanticId(submodel), governance) = "pending")
                    |-> QueueItem(SelectSeq(found_submodels,
                                            LAMBDA submodel :
                                                DetermineSingleSubmodelStatus(
                                                    ExtractSemanticId(submodel), governance)
                                                = "pending")[i],
                                  governance[1])]
             response == [status |-> <<>>, error |-> <<>>,
                          submodelDescriptors |-> DescriptorsById(found_submodels, statuses),
                          submodels |-> <<>>, submodelsFound |-> Len(found_submodels),
                          dtr |-> shell_result.dtr, calls |-> shell_result.calls]
         IN IF submodel_descriptors = <<>>
            THEN [response EXCEPT !.error = <<"No submodels found in shell">>]
            ELSE IF found_submodels = <<>>
            THEN [response EXCEPT
                     !.error = <<"No submodels found with semantic_ids", semantic_ids, "in shell">>]
            ELSE IF submodels_to_fetch = <<>> THEN response
            ELSE FetchSubmodelsData(bpn, submodels_to_fetch, response, env)

\* discover_submodel_by_semantic_ids(bpn, id, dtr_policies, governance, semantic_ids)
DiscoverSubmodelBySemanticIds(bpn, id, dtr_policies, governance, semantic_ids, u, answers, shell, env) ==
    /\ Idle
    /\ LET out == GetDtrsOutcome(known_dtrs, logger, verbose, bpn, now, u.conn, u.cats, u.order)
           shell_result == DiscoverShellResult(bpn, id, dtr_policies, out.result, answers, shell)
       IN /\ known_dtrs' = out.kd
          /\ ret' = [op |-> "discover_submodel_by_semantic_ids", bpn |-> bpn, id |-> id,
                     governance |-> governance, semantic_ids |-> semantic_ids,
                     shell_result |-> shell_result,
                     negotiation |-> env.negotiation, empty_hrefs |-> env.empty_hrefs,
                     result |-> DiscoverSubmodelBySemanticIdsResult(bpn, shell_result, governance,
                                                                    semantic_ids, env)]
    /\ ds' = ReturnedFrame
    /\ UNCHANGED <<addon_vars, logger, verbose, now, shell_descriptors, client_cursor>>

\* the semantic ids asked for: none, S1, S1 and S2, or S1 under another type
SEMANTIC_TARGETS ==
    { <<>>, << [type |-> "T", value |-> "S1"] >>,
      << [type |-> "T", value |-> "S1"], [type |-> "T", value |-> "S2"] >>,
      << [type |-> "X", value |-> "S1"] >> }

----------------------------------------------------------------------------
(* discover_submodel: the direct lookup of one submodel descriptor and the fetch   *)
(* of its data with one retry                                                     *)

\* what the counterparty does during the fetch of one submodel: the outcome of the
\* k-th negotiation of the asset, whether the k-th GET href answers data, and what the
\* k-th purge of the asset token reports
RETRIES ==
    [negotiation : [1..3 -> {"token", "none", "raise"}],
     data : [1..2 -> BOOLEAN],
     purge : [1..2 -> {"existed", "not_existed", "raise"}]]

\* _fetch_single_submodel_data: negotiate and fetch; on no token or no data purge the
\* asset token, sleep, negotiate and fetch again; an exception of the try block is
\* handled by another purge, sleep, negotiation and fetch
FetchSingleSubmodelData(bpn, submodel_info, response, env) ==
    LET negotiate == [call |-> "do_dsp_by_asset_id", target |-> submodel_info.assetId,
                      bpn |-> bpn, url |-> submodel_info.connectorUrl, query |-> <<>>,
                      policies |-> submodel_info.policies]
        get == [call |-> "get_href", target |-> submodel_info.href, bpn |-> "",
                url |-> submodel_info.href, query |-> <<"token", submodel_info.assetId>>,
                policies |-> <<>>]
        purge == [call |-> "purge_asset_cache", target |-> submodel_info.assetId, bpn |-> bpn,
                  url |-> submodel_info.connectorUrl, query |-> <<>>,
                  policies |-> submodel_info.policies]
        sleep == [call |-> "sleep", target |-> "5", bpn |-> "", url |-> "", query |-> <<>>,
                  policies |-> <<>>]
        Failed(text, calls) ==
            [response EXCEPT !.submodelDescriptor[1].status = "error",
                             !.submodelDescriptor[1].error = <<text>>,
                             !.calls = @ \o calls]
        Success(calls) ==
            [response EXCEPT !.submodelDescriptor[1].status = "success",
                             !.submodel = <<"data", submodel_info.href>>,
                             !.calls = @ \o calls]
        \* the except branch: purge, sleep, negotiate and fetch once more; without
        \* data the error of the exception is reported
        Handler(calls, n, f, p) ==
            IF env.purge[p] = "raise"
            THEN Failed("Asset negotiation failed with exception", calls \o <<purge>>)
            ELSE IF env.negotiation[n] = "token"
            THEN IF env.data[f]
                 THEN Success(calls \o <<purge, sleep, negotiate, get>>)
                 ELSE Failed("Asset negotiation failed with exception",
                             calls \o <<purge, sleep, negotiate, get>>)
            ELSE Failed("Asset negotiation failed with exception",
                        calls \o <<purge, sleep, negotiate>>)
        Retry(calls, f) ==
            IF env.purge[1] = "raise" THEN Handler(calls \o <<purge>>, 2, f, 2)
            ELSE IF env.purge[1] = "not_existed"
            THEN Failed("This submodel asset does not exists or is not accesible via Connector with your permissions.",
                        calls \o <<purge>>)
            ELSE IF env.negotiation[2] = "raise"
            THEN Handler(calls \o <<purge, sleep, negotiate>>, 3, f, 2)
            ELSE IF env.negotiation[2] = "none"
            THEN Failed("Asset negotiation failed. You may not have enough access permissions to this submodel.",
                        calls \o <<purge, sleep, negotiate>>)
            ELSE IF env.data[f]
            THEN Success(calls \o <<purge, sleep, negotiate, get>>)
            ELSE Failed("Data fetch returned no data after one retry",
                        calls \o <<purge, sleep, negotiate, get>>)
    IN IF submodel_info.assetId = "unknown"
       THEN Failed("Invalid asset ID", <<>>)
       ELSE IF env.negotiation[1] = "raise" THEN Handler(<<negotiate>>, 2, 1, 1)
       ELSE IF env.negotiation[1] = "none" THEN Retry(<<negotiate>>, 1)
       ELSE IF env.data[1] THEN Success(<<negotiate, get>>)
       ELSE Retry(<<negotiate, get>>, 2)

\* _process_submodel_descriptor: the descriptor of the response and, when it is
\* pending, the fetch of its data
ProcessSubmodelDescriptor(submodel_descriptor, submodel_id, governance, dtr, bpn, env, calls) ==
    LET status == DetermineSingleSubmodelStatus(ExtractSemanticId(submodel_descriptor),
                                                governance)
        response == [raised |-> FALSE, status |-> <<>>, error |-> <<>>,
                     submodelDescriptor |->
                         << [Descriptor(submodel_descriptor, status)
                                EXCEPT !.submodelId = submodel_id] >>,
                     submodel |-> <<>>,
                     dtr |-> << [connectorUrl |-> dtr.connector_url, assetId |-> dtr.asset_id] >>,
                     calls |-> calls]
    IN IF bpn # "" /\ status = "pending"
       THEN FetchSingleSubmodelData(bpn,
                                    [QueueItem(submodel_descriptor, governance[1])
                                        EXCEPT !.submodel_id = submodel_id],
                                    response, env)
       ELSE response

\* the loop over the DTRs of discover_submodel: a DTR that raises is skipped, a DTR
\* that answers ends the loop, with the descriptor or with an error
RECURSIVE DiscoverSubmodelLoop(_, _, _, _, _, _, _, _, _)
DiscoverSubmodelLoop(bpn, call, dtrs, answers, submodel_descriptor, env, calls, lg, vb) ==
    IF dtrs = <<>>
    THEN [raised |-> FALSE, status |-> <<"error">>,
          error |-> <<"Submodel not found in any DTR of this counterPartyId">>,
          submodelDescriptor |-> <<>>, submodel |-> <<>>, dtr |-> <<>>, calls |-> calls]
    ELSE LET dtr == Head(dtrs)
             dsp == Append(calls, CallDoDsp(bpn, dtr, PoliciesToUse(call.dtr_policies, dtr)))
             get == Append(dsp, [call |-> "get_submodel_descriptor", target |-> dtr.asset_id,
                                 bpn |-> bpn, url |-> dtr.connector_url,
                                 query |-> <<call.id, call.submodel_id>>, policies |-> <<>>])
         IN IF answers[dtr.asset_id] = "negotiation_raises"
            THEN DiscoverSubmodelLoop(bpn, call, Tail(dtrs), answers, submodel_descriptor, env,
                                      dsp, lg, vb)
            ELSE IF answers[dtr.asset_id] = "fetch_raises"
            THEN DiscoverSubmodelLoop(bpn, call, Tail(dtrs), answers, submodel_descriptor, env,
                                      get, lg, vb)
            ELSE IF answers[dtr.asset_id] = "found"
            THEN ProcessSubmodelDescriptor(submodel_descriptor, call.submodel_id,
                                           call.governance, dtr, bpn, env, get)
            ELSE [raised |-> FALSE, status |-> <<"error">>,
                  error |-> <<"Failed to fetch submodel descriptor data due to DTR not accessible or submodel not found">>,
                  submodelDescriptor |-> <<>>, submodel |-> <<>>, dtr |-> <<>>, calls |-> get]

\* discover_submodel after get_dtrs returned dtrs; the debug lines after get_dtrs
\* are written without a test of the logger
DiscoverSubmodelResult(bpn, call, dtrs, answers, submodel_descriptor, env, lg, vb) ==
    IF dtrs = <<>>
    THEN [raised |-> FALSE, status |-> <<"error">>,
          error |-> <<"No DTRs found for this counterPartyId">>,
          submodelDescriptor |-> <<>>, submodel |-> <<>>, dtr |-> <<>>, calls |-> <<>>]
    ELSE IF ~lg
    THEN [raised |-> TRUE, status |-> <<>>, error |-> <<"AttributeError">>,
          submodelDescriptor |-> <<>>, submodel |-> <<>>, dtr |-> <<>>, calls |-> <<>>]
    ELSE DiscoverSubmodelLoop(bpn, call, dtrs, answers, submodel_descriptor, env, <<>>, lg, vb)

\* discover_submodel(bpn, id, dtr_policies, governance, submodel_id)
DiscoverSubmodel(bpn, call, u, answers, submodel_descriptor, env) ==
    /\ Idle
    /\ LET out == GetDtrsOutcome(known_dtrs, logger, verbose, bpn, now, u.conn, u.cats, u.order)
       IN /\ known_dtrs' = out.kd
          /\ ret' = [op |-> "discover_submodel", bpn |-> bpn, id |-> call.id,
                     submodel_id |-> call.submodel_id, governance |-> call.governance,
                     dtrs |-> out.result, answers |-> answers,
                     submodel_descriptor |-> submodel_descriptor, retries |-> env,
                     result |-> DiscoverSubmodelResult(bpn, call, out.result, answers,
                                                       submodel_descriptor, env, logger, verbose)]
    /\ ds' = ReturnedFrame
    /\ UNCHANGED <<addon_vars, logger, verbose, now, shell_descriptors, client_cursor>>

\* the calls of discover_submodel: the registry holds a descriptor with or without
\* semantic id or asset id, the caller passes governance or not; every course of the
\* fetch is tried for the descriptor that is fetched
SUBMODEL_CALLS ==
    { c \in [descriptor : {SUBMODEL_DESCRIPTORS[1], SUBMODEL_DESCRIPTORS[5],
                           SUBMODEL_DESCRIPTORS[6]},
             governance : {<<>>, << <<"g1">> >>},
             env : RETRIES] :
        \/ c.descriptor = SUBMODEL_DESCRIPTORS[1] /\ c.governance # <<>>
        \/ \A k \in 1..3 : c.env.negotiation[k] = "token" /\ c.env.data[1] /\ c.env.data[2]
                           /\ c.env.purge[1] = "existed" /\ c.env.purge[2] = "existed" }

\* the answers of the DTRs to discover_submodel: the DTR a2 has the descriptor
SUBMODEL_LOOKUPS ==
    { a \in [ASSET_IDS -> {"negotiation_raises", "fetch_raises", "not_found", "found"}] :
        a["a2"] = "found" }

----------------------------------------------------------------------------
(* POST /discover/shell/submodels/semanticId: the router in front of               *)
(* discover_submodel_by_semantic_ids                                              *)

\* the bodies of the request: semanticIds absent, a list of well-formed entries or a
\* list with an entry without 'value'; semanticId absent or a string; governance
\* absent or a list of policies
SEMANTIC_ID_BODIES ==
    [semantic_ids : {<<>>} \cup {<<t>> : t \in SEMANTIC_TARGETS}
                           \cup {<< << [type |-> "T"] >> >>},
     semantic_id : {<<>>, <<"S1">>},
     governance : {<<>>, << <<"g1">> >>}]

\* discover_submodels_by_semantic_id(search_request): validate and normalise the
\* semantic ids, then call the engine with the keywords counter_party_id, id,
\* dtr_policies and semantic_id_policies; Python binds the keywords to the parameters
\* of discover_submodel_by_semantic_ids (counter_party_id, id, dtr_policies,
\* governance, semantic_ids) and raises TypeError for a keyword that is no parameter;
\* any exception of the call is answered with the status chosen from its message
PostSemanticId(bpn, id, body) ==
    /\ Idle
    /\ LET malformed == /\ body.semantic_ids # <<>>
                        /\ \E sid \in Range(body.semantic_ids[1]) :
                               {"type", "value"} \ DOMAIN sid # {}
           normalized_semantic_ids ==
               IF body.semantic_ids # <<>> THEN body.semantic_ids[1]
               ELSE << [type |-> "GlobalReference", value |-> body.semantic_id[1]] >>
           kwargs == [counter_party_id |-> bpn, id |-> id, dtr_policies |-> <<>>,
                      semantic_id_policies |-> normalized_semantic_ids]
           parameters == {"counter_party_id", "id", "dtr_policies", "governance", "semantic_ids"}
           request == [op |-> "post_semantic_id", bpn |-> bpn, id |-> id, body |-> body]
       IN IF malformed \/ (body.semantic_ids = <<>> /\ body.semantic_id = <<>>)
          THEN /\ ret' = request @@
                         [status_code |-> 400, engine_called |-> FALSE, kwargs |-> <<>>,
                          result |-> <<>>]
               /\ UNCHANGED known_dtrs
          ELSE IF DOMAIN kwargs \ parameters # {}
          THEN /\ ret' = request @@
                         [status_code |-> 500, engine_called |-> FALSE, kwargs |-> <<kwargs>>,
                          result |-> <<"TypeError", DOMAIN kwargs \ parameters>>]
               /\ UNCHANGED known_dtrs
          ELSE \E u \in UpstreamsFor(bpn, SHELL_UPSTREAMS), answers \in SUBMODEL_ANSWERS,
                  shell \in SHELLS, env \in ENVIRONMENTS :
                  LET out == GetDtrsOutcome(known_dtrs, logger, verbose, bpn, now, u.conn,
                                            u.cats, u.order)
                      shell_result == DiscoverShellResult(bpn, id, <<>>, out.result, answers, shell)
                  IN /\ known_dtrs' = out.kd
                     /\ ret' = request @@
                               [status_code |-> 200, engine_called |-> TRUE,
                                kwargs |-> <<kwargs>>,
                                result |-> <<DiscoverSubmodelBySemanticIdsResult(
                                                 bpn, shell_result, <<>>, <<>>, env)>>]
    /\ ds' = ReturnedFrame
    /\ UNCHANGED <<addon_vars, logger, verbose, now, shell_descriptors, client_cursor>>

\* the caller takes the result of a finished call
TakeResult ==
    /\ ds.pc = "returned"
    /\ ret' = NoCall
    /\ ds' = IdleFrame
    /\ UNCHANGED <<addon_vars, logger, verbose, now, known_dtrs, shell_descriptors, client_cursor>>

NextSubmodels ==
    \/ \E a \in SHELL_ADDS : AddDtr(a[1], a[2], a[3], a[4])
    \/ /\ Idle
       /\ \E id \in {"", "s1"}, dtr_policies \in DTR_POLICIES,
             u \in UpstreamsFor("B1", SHELL_UPSTREAMS),
             answers \in [ASSET_IDS -> {"negotiation_raises", "fetch_raises",
                                          "not_found", "found"}],
             shell \in {sh \in SHELLS : Len(sh.submodelDescriptors) = 0} :
              DiscoverShell("B1", id, dtr_policies, u, answers, shell)
    \/ /\ Idle
       /\ \E governance \in GOVERNANCES, u \in UpstreamsFor("B1", SHELL_UPSTREAMS),
             answers \in SUBMODEL_ANSWERS, shell \in SHELLS, env \in ENVIRONMENTS :
              DiscoverSubmodels("B1", "s1", <<>>, governance, u, answers, shell, env)
    \/ /\ Idle
       /\ \E governance \in {<<>>, << <<"g1">> >>}, semantic_ids \in SEMANTIC_TARGETS,
             u \in UpstreamsFor("B1", SHELL_UPSTREAMS), answers \in SUBMODEL_ANSWERS,
             shell \in SHELLS, env \in ENVIRONMENTS :
              DiscoverSubmodelBySemanticIds("B1", "s1", <<>>, governance, semantic_ids, u,
                                            answers, shell, env)
    \/ /\ Idle
       /\ \E c \in SUBMODEL_CALLS, u \in UpstreamsFor("B1", SHELL_UPSTREAMS),
             answers \in SUBMODEL_LOOKUPS :
              DiscoverSubmodel("B1", [id |-> "s1", submodel_id |-> "m1", dtr_policies |-> <<>>,
                                      governance |-> c.governance],
                               u, answers, c.descriptor, c.env)
    \/ \E body \in SEMANTIC_ID_BODIES : PostSemanticId("B1", "s1", body)
    \/ TakeResult

SpecSubmodels == Init /\ [][NextSubmodels]_vars

----------------------------------------------------------------------------
(* Properties of discover_shell and the submodel operations (specification         *)
(* SpecSubmodels)                                                                 *)

\* C11: discover_shell tries the DTRs of the BPN one at a time in cache order; the
\* result is the descriptor of the first DTR that answers one, with connectorUrl and
\* assetId of that DTR, and no later DTR is contacted; a DTR whose negotiation or fetch
\* raises is skipped; without any descriptor the result has status 404
C11_FirstMatchWins ==
    (ret.op = "discover_shell" /\ ret.dtrs # <<>> /\ ret.id # "") =>
        LET dtrs == ret.dtrs
            r == ret.result
            found == {i \in DOMAIN dtrs : ret.answers[dtrs[i].asset_id] = "found"}
            last == IF found = {} THEN Len(dtrs)
                    ELSE CHOOSE i \in found : \A j \in found : i <= j
            contacted == SelectSeq(r.calls, LAMBDA c : c.call = "do_dsp")
            gets == SelectSeq(r.calls, LAMBDA c : c.call = "get_shell_descriptor")
        IN /\ Len(contacted) = last
           /\ \A i \in 1..last : /\ contacted[i].target = dtrs[i].asset_id
                                 /\ contacted[i].url = dtrs[i].connector_url
                                 /\ contacted[i].bpn = ret.bpn
           /\ Len(gets) = Cardinality({i \in 1..last :
                              ret.answers[dtrs[i].asset_id] # "negotiation_raises"})
           /\ \A c \in Range(gets) : \E i \in 1..last : c.target = dtrs[i].asset_id
           /\ IF found = {}
              THEN r.status = <<404>> /\ r.shell_descriptor = <<>> /\ r.dtr = <<>>
              ELSE /\ r.status = <<>>
                   /\ r.shell_descriptor = <<ret.shell>>
                   /\ r.dtr = << [connectorUrl |-> dtrs[last].connector_url,
                                  assetId |-> dtrs[last].asset_id] >>

\* the first DTR raised in the fetch and the second one answered the shell
C11_Witness ==
    /\ ret.op = "discover_shell"
    /\ Len(ret.dtrs) = 2
    /\ ret.answers[ret.dtrs[1].asset_id] = "fetch_raises"
    /\ ret.answers[ret.dtrs[2].asset_id] = "found"
    /\ ret.result.shell_descriptor = <<ret.shell>>
    /\ ret.result.dtr[1].assetId = ret.dtrs[2].asset_id

\* C12: in discover_submodels a descriptor without semantic id gets 'error', one whose
\* semantic id has no governance (governance null, empty or without that id) gets
\* 'governance_not_found', every other one is pending and is processed to 'success' or
\* 'error'; negotiations and GETs are issued for pending descriptors only, and the
\* other descriptors do not keep a pending sibling from being fetched
C12_OnlyPendingQueued ==
    (ret.op = "discover_submodels" /\ ret.shell_result.shell_descriptor # <<>>) =>
        LET list == ret.shell_result.shell_descriptor[1].submodelDescriptors
            r == ret.result
            gov == ret.governance
            Rule(d) == IF d.keys = <<>> THEN "error"
                       ELSE IF gov = <<>> THEN "governance_not_found"
                       ELSE IF d.keys[1].value \in DOMAIN gov[1] THEN "pending"
                       ELSE "governance_not_found"
            IdOf(d) == IF d.id = <<>> THEN "unknown" ELSE d.id[1]
            Single(i) == \A j \in DOMAIN list : IdOf(list[j]) = IdOf(list[i]) => j = i
            own == SelectSeq(r.calls, LAMBDA c : c.call \in {"do_dsp_by_asset_id", "get_href"})
        IN /\ \A i \in DOMAIN list :
                Single(i) =>
                    /\ IdOf(list[i]) \in DOMAIN r.submodelDescriptors
                    /\ Rule(list[i]) # "pending" =>
                           r.submodelDescriptors[IdOf(list[i])].status = Rule(list[i])
                    /\ Rule(list[i]) = "pending" =>
                           r.submodelDescriptors[IdOf(list[i])].status \in {"success", "error"}
                    /\ ( /\ Rule(list[i]) = "pending"
                         /\ list[i].endpoint # <<>>
                         /\ list[i].endpoint[1].body # <<>>
                         /\ ret.negotiation[list[i].endpoint[1].body[1].id] = "token"
                         /\ list[i].endpoint[1].href \notin ret.empty_hrefs )
                       => r.submodelDescriptors[IdOf(list[i])].status = "success"
           /\ \A c \in Range(own) :
                \E i \in DOMAIN list :
                    /\ Rule(list[i]) = "pending"
                    /\ list[i].endpoint # <<>>
                    /\ list[i].endpoint[1].body # <<>>
                    /\ IF c.call = "get_href" THEN c.target = list[i].endpoint[1].href
                       ELSE c.target = list[i].endpoint[1].body[1].id

\* a shell with a descriptor without governance and a pending one that was fetched
C12_Witness ==
    /\ ret.op = "discover_submodels"
    /\ ret.shell_result.shell_descriptor # <<>>
    /\ DOMAIN ret.result.submodelDescriptors = {"m1", "m2"}
    /\ ret.result.submodelDescriptors["m2"].status = "governance_not_found"
    /\ ret.result.submodelDescriptors["m1"].status = "success"
    /\ \E i \in DOMAIN ret.result.calls : ret.result.calls[i].call = "get_href"

\* C13: for every discover_submodels call that resolves the shell, the response has as
\* many entries in submodelDescriptors as the shell has submodel descriptors, and
\* submodelsFound is that number, also when descriptors have equal or missing ids
C13_OneEntryPerDescriptor ==
    (ret.op = "discover_submodels" /\ ret.shell_result.shell_descriptor # <<>>) =>
        LET list == ret.shell_result.shell_descriptor[1].submodelDescriptors
        IN /\ Cardinality(DOMAIN ret.result.submodelDescriptors) = Len(list)
           /\ ret.result.submodelsFound = Len(list)

\* C14: in one discover_submodels call exactly one do_dsp_by_asset_id is performed for
\* every distinct asset id of the queued descriptors, however many of them share it,
\* and exactly one GET href for every queued descriptor whose asset negotiated
C14_OneNegotiationPerAsset ==
    (ret.op = "discover_submodels" /\ ret.shell_result.shell_descriptor # <<>>) =>
        LET list == ret.shell_result.shell_descriptor[1].submodelDescriptors
            gov == ret.governance
            queued == {i \in DOMAIN list :
                          /\ list[i].keys # <<>>
                          /\ gov # <<>>
                          /\ list[i].keys[1].value \in DOMAIN gov[1]}
            AssetOf(i) == IF list[i].endpoint = <<>> \/ list[i].endpoint[1].body = <<>>
                          THEN "unknown" ELSE list[i].endpoint[1].body[1].id
            Calls(kind, target) ==
                Cardinality({k \in DOMAIN ret.result.calls :
                                /\ ret.result.calls[k].call = kind
                                /\ ret.result.calls[k].target = target})
        IN /\ \A a \in {"A", "B"} :
                Calls("do_dsp_by_asset_id", a) =
                    IF \E i \in queued : AssetOf(i) = a THEN 1 ELSE 0
           /\ \A h \in {"h1", "h2", "h3", "h4", "h5", "unknown"} :
                Calls("get_href", h) =
                    Cardinality({i \in queued : /\ AssetOf(i) # "unknown"
                                                /\ ret.negotiation[AssetOf(i)] = "token"
                                                /\ list[i].endpoint[1].href = h})
           /\ \A k \in DOMAIN ret.result.calls :
                /\ ret.result.calls[k].call = "do_dsp_by_asset_id" =>
                       ret.result.calls[k].target \in {"A", "B"}
                /\ ret.result.calls[k].call = "get_href" =>
                       ret.result.calls[k].target \in {"h1", "h2", "h3", "h4", "h5", "unknown"}

\* two queued descriptors of asset A: one negotiation, two GETs
C14_Witness ==
    /\ ret.op = "discover_submodels"
    /\ ret.shell_result.shell_descriptor # <<>>
    /\ DOMAIN ret.result.submodels = {"m1", "m2"}
    /\ Len(SelectSeq(ret.result.calls, LAMBDA c : c.call = "do_dsp_by_asset_id")) = 1
    /\ Len(SelectSeq(ret.result.calls, LAMBDA c : c.call = "get_href")) = 2

\* C15: when the negotiation of an asset fails in discover_submodels, every queued
\* descriptor of that asset ends 'error' with one and the same error text and no GET
\* href is issued for any of them, while the queued descriptors of an asset that
\* negotiated are fetched
C15_FailedAssetMarksAllItsDescriptors ==
    (ret.op = "discover_submodels" /\ ret.shell_result.shell_descriptor # <<>>) =>
        LET list == ret.shell_result.shell_descriptor[1].submodelDescriptors
            r == ret.result
            gov == ret.governance
            queued == {i \in DOMAIN list :
                          /\ list[i].keys # <<>>
                          /\ gov # <<>>
                          /\ list[i].keys[1].value \in DOMAIN gov[1]}
            AssetOf(i) == IF list[i].endpoint = <<>> \/ list[i].endpoint[1].body = <<>>
                          THEN "unknown" ELSE list[i].endpoint[1].body[1].id
            IdOf(i) == IF list[i].id = <<>> THEN "unknown" ELSE list[i].id[1]
            Bound(a) == {i \in queued : AssetOf(i) = a}
            Fetched(i) == \E k \in DOMAIN r.calls : /\ r.calls[k].call = "get_href"
                                                    /\ r.calls[k].target = list[i].endpoint[1].href
        IN \A a \in {"A", "B"} :
              IF ret.negotiation[a] = "token"
              THEN \A i \in Bound(a) : Fetched(i)
              ELSE /\ \A i \in Bound(a) :
                          /\ IdOf(i) \in DOMAIN r.submodelDescriptors
                          /\ r.submodelDescriptors[IdOf(i)].status = "error"
                          /\ ~Fetched(i)
                   /\ \A i, j \in Bound(a) :
                          r.submodelDescriptors[IdOf(i)].error = r.submodelDescriptors[IdOf(j)].error

\* C16: when discover_submodels or discover_submodel_by_semantic_ids returns, no
\* descriptor of the response is 'pending': each is 'success', 'error' or
\* 'governance_not_found', whatever the negotiations and fetches answered and also
\* where no asset id could be extracted
C16_NoPendingInResponse ==
    ret.op \in {"discover_submodels", "discover_submodel_by_semantic_ids"} =>
        \A id \in DOMAIN ret.result.submodelDescriptors :
            ret.result.submodelDescriptors[id].status
                \in {"success", "error", "governance_not_found"}

\* a matching descriptor without asset id was queued and closed as not completed
C16_Witness ==
    /\ ret.op = "discover_submodel_by_semantic_ids"
    /\ "unknown" \in DOMAIN ret.result.submodelDescriptors
    /\ ret.result.submodelDescriptors["unknown"].assetId = "unknown"
    /\ ret.result.submodelDescriptors["unknown"].status = "error"
    /\ ret.result.submodelDescriptors["unknown"].error = <<"Processing was not completed">>

\* C20: discover_submodel_by_semantic_ids(sem) includes a descriptor of the shell in
\* the response if and only if its (type, value) keys are a superset of sem;
\* submodelsFound is the number of included descriptors; with sem empty or without a
\* match the response carries an error, submodelsFound is 0 and nothing is negotiated
\* or fetched
C20_ExactlyTheMatchingDescriptors ==
    (ret.op = "discover_submodel_by_semantic_ids" /\ ret.shell_result.shell_descriptor # <<>>) =>
        LET list == ret.shell_result.shell_descriptor[1].submodelDescriptors
            r == ret.result
            sem == {<<t.type, t.value>> : t \in Range(ret.semantic_ids)}
            Matches(i) == /\ sem # {}
                          /\ sem \subseteq {<<k.type, k.value>> : k \in Range(list[i].keys)}
            IdOf(i) == IF list[i].id = <<>> THEN "unknown" ELSE list[i].id[1]
            HrefOf(i) == IF list[i].endpoint = <<>> THEN "unknown" ELSE list[i].endpoint[1].href
            Included(i) == /\ IdOf(i) \in DOMAIN r.submodelDescriptors
                           /\ r.submodelDescriptors[IdOf(i)].href = HrefOf(i)
                           /\ r.submodelDescriptors[IdOf(i)].semanticId =
                                  IF list[i].keys = <<>> THEN <<>> ELSE <<list[i].keys[1].value>>
        IN /\ \A i \in DOMAIN list : Included(i) <=> Matches(i)
           /\ r.submodelsFound = Cardinality({i \in DOMAIN list : Included(i)})
           /\ (\A i \in DOMAIN list : ~Matches(i)) =>
                  /\ r.error # <<>>
                  /\ r.submodelsFound = 0
                  /\ \A k \in DOMAIN r.calls :
                         r.calls[k].call \notin {"do_dsp_by_asset_id", "get_href"}

\* C17: discover_submodel tries the DTRs of the BPN in turn: when a DTR is reached
\* but does not return the submodel descriptor the next DTR is tried, the descriptor
\* of the first DTR that has it is used, and a 'not found' error is returned only
\* after every DTR was tried
C17_EveryDtrTriedBeforeNotFound ==
    (ret.op = "discover_submodel" /\ ret.dtrs # <<>> /\ ~ret.result.raised) =>
        LET dtrs == ret.dtrs
            r == ret.result
            having == {i \in DOMAIN dtrs : ret.answers[dtrs[i].asset_id] = "found"}
            Tried(i) == \E k \in DOMAIN r.calls : /\ r.calls[k].call = "do_dsp"
                                                  /\ r.calls[k].target = dtrs[i].asset_id
        IN IF having = {}
           THEN /\ r.submodelDescriptor = <<>>
                /\ \A i \in DOMAIN dtrs : Tried(i)
           ELSE LET first == CHOOSE i \in having : \A j \in having : i <= j
                IN /\ r.submodelDescriptor # <<>>
                   /\ r.dtr = << [connectorUrl |-> dtrs[first].connector_url,
                                  assetId |-> dtrs[first].asset_id] >>
                   /\ \A i \in DOMAIN dtrs : Tried(i) <=> i <= first

\* C18: the fetch of discover_submodel runs at most one purge-sleep-renegotiate-refetch
\* cycle: whatever is empty or raises, one call performs at most 2 asset
\* negotiations, at most 2 GET href and at most 1 purge
C18_AtMostOneRetryCycle ==
    ret.op = "discover_submodel" =>
        LET Count(kind) == Len(SelectSeq(ret.result.calls, LAMBDA c : c.call = kind))
        IN /\ Count("do_dsp_by_asset_id") <= 2
           /\ Count("get_href") <= 2
           /\ Count("purge_asset_cache") <= 1

\* C19: in discover_submodel, when the first GET href returns no data or the first
\* negotiation raises, the asset token is purged and one re-negotiation and one
\* refetch follow, whatever the purge reports; the status is 'success' if the refetch
\* returned data and 'error' otherwise
C19_PurgeThenOneRetry ==
    ( /\ ret.op = "discover_submodel"
      /\ ret.result.submodelDescriptor # <<>>
      /\ \E k \in DOMAIN ret.result.calls : ret.result.calls[k].call = "do_dsp_by_asset_id"
      /\ \/ ret.retries.negotiation[1] = "raise"
         \/ ret.retries.negotiation[1] = "token" /\ ~ret.retries.data[1] ) =>
        LET r == ret.result
            Count(kind) == Len(SelectSeq(r.calls, LAMBDA c : c.call = kind))
            refetch == IF ret.retries.negotiation[1] = "raise" THEN 1 ELSE 2
        IN /\ Count("purge_asset_cache") >= 1
           /\ Count("do_dsp_by_asset_id") = 2
           /\ ret.retries.negotiation[2] = "token" =>
                 /\ Count("get_href") = refetch
                 /\ r.submodelDescriptor[1].status =
                        IF ret.retries.data[refetch] THEN "success" ELSE "error"
           /\ ret.retries.negotiation[2] # "token" => r.submodelDescriptor[1].status = "error"

\* C21: POST /discover/shell/submodels/semanticId answers a body with neither
\* semanticIds nor semanticId with 400 without calling the engine; for a well-formed
\* semanticIds list or a semanticId string the engine is invoked with the normalised
\* semantic ids and the caller's governance, and its result is returned with 200
C21_SemanticIdRouteReachesEngine ==
    ret.op = "post_semantic_id" =>
        IF ret.body.semantic_ids = <<>> /\ ret.body.semantic_id = <<>>
        THEN ret.status_code = 400 /\ ~ret.engine_called
        ELSE (ret.body.semantic_ids = <<>> \/
              \A sid \in Range(ret.body.semantic_ids[1]) : {"type", "value"} \subseteq DOMAIN sid)
             => /\ ret.status_code = 200
                /\ ret.engine_called
                /\ "semantic_ids" \in DOMAIN ret.kwargs[1]
                /\ "governance" \in DOMAIN ret.kwargs[1]
                /\ ret.kwargs[1].semantic_ids =
                       IF ret.body.semantic_ids # <<>> THEN ret.body.semantic_ids[1]
                       ELSE << [type |-> "GlobalReference", value |-> ret.body.semantic_id[1]] >>
                /\ ret.kwargs[1].governance = ret.body.governance

----------------------------------------------------------------------------
(* The EcoPass add-on: the DPP discovery tasks.  DiscoveryTaskManager keeps  *)
(* the task store, the router POST /addons/ecopass/discover/ creates a task  *)
(* and hands execute_discovery to the background tasks, and the workflow     *)
(* writes its steps into the store.  A str(e) or an f-string is held as the  *)
(* sequence of its pieces, an identifier as the list id_str.split(":"), and  *)
(* None as the empty sequence.                                               *)

\* the uuid4 values, in the order generate_task_id hands them out
TASK_IDS == <<"t1", "t2">>

\* the operator a call of uuid4 is replaced by when ids may repeat
AnyTaskId(store) == {TASK_IDS[n] : n \in DOMAIN TASK_IDS}

\* generate_task_id: uuid4 returns an id no task has yet
GenerateTaskId(store) ==
    {TASK_IDS[n] : n \in {m \in DOMAIN TASK_IDS : \A o \in 1..m : TASK_IDS[o] \in DOMAIN store <=> o < m}}

\* create_task (created_at, which nothing reads, is left out)
CreateTask(store, task_id) ==
    (task_id :> [status |-> "in_progress", step |-> "parsing",
                 message |-> <<"Parsing identifier...">>, progress |-> 0,
                 digital_twin |-> <<>>, data |-> <<>>, error |-> <<>>]) @@ store

\* update_task that leaves step and progress as they were
UpdateTaskKeepsStep(store, task_id, step, message, progress, status, digital_twin, data) ==
    IF task_id \in DOMAIN store
    THEN [store EXCEPT ![task_id] = [@ EXCEPT !.status = status, !.message = message]]
    ELSE store

\* update_task
UpdateTask(store, task_id, step, message, progress, status, digital_twin, data) ==
    IF task_id \in DOMAIN store
    THEN [store EXCEPT ![task_id] =
            [@ EXCEPT !.status = status, !.step = step, !.message = message,
                      !.progress = progress,
                      !.digital_twin = IF digital_twin # <<>> THEN digital_twin ELSE @,
                      !.data = IF data # <<>> THEN data ELSE @]]
    ELSE store

\* mark_failed that starts the progress again
MarkFailedResetProgress(store, task_id, error) ==
    IF task_id \in DOMAIN store
    THEN [store EXCEPT ![task_id] =
            [@ EXCEPT !.status = "failed", !.progress = 0,
                      !.message = <<"Discovery failed: ">> \o error, !.error = <<error>>]]
    ELSE store

\* mark_failed that names the step "error"
MarkFailedStepError(store, task_id, error) ==
    IF task_id \in DOMAIN store
    THEN [store EXCEPT ![task_id] =
            [@ EXCEPT !.status = "failed", !.step = "error",
                      !.message = <<"Discovery failed: ">> \o error, !.error = <<error>>]]
    ELSE store

\* mark_failed: the step and the progress are the ones the task has
MarkFailed(store, task_id, error) ==
    IF task_id \in DOMAIN store
    THEN [store EXCEPT ![task_id] =
            [@ EXCEPT !.status = "failed", !.step = store[task_id].step,
                      !.message = <<"Discovery failed: ">> \o error,
                      !.progress = store[task_id].progress, !.error = <<error>>]]
    ELSE store

\* validate_id_format: <<>> when it returns True, else the message of its ValueError
ValidateIdFormat(id_str) ==
    IF ~(Len(id_str) >= 2 /\ id_str[1] = "CX")
    THEN << <<"ID must be in format 'CX:<manufacturerPartId>:<partInstanceId>'">> >>
    ELSE IF Len(id_str) # 3
         THEN << <<"Invalid ID format. Expected 'CX:<manufacturerPartId>:<partInstanceId>'">> >>
         ELSE <<>>

\* one step of the coroutine execute_discovery of a task: from one update of
\* the task store to the next, or to mark_failed in the except branch
ExecuteDiscovery(task_id) ==
    LET f == background_tasks[task_id]
        \* extract_semantic_id
        extract_semantic_id(submodel) ==
            LET semantic_id_obj == submodel.semanticId
            IN  IF semantic_id_obj.form = "dict"
                THEN IF semantic_id_obj.keys # <<>> THEN semantic_id_obj.keys[1]
                     ELSE IF semantic_id_obj.value # <<>> THEN semantic_id_obj.value[1]
                     ELSE ""
                ELSE IF semantic_id_obj.form = "str" THEN semantic_id_obj.value[1]
                ELSE ""
        GlobalReference(values) == [form |-> "dict", keys |-> values, value |-> <<>>]
        sA == [id |-> "sA", submodelDescriptors |->
                 << [id |-> "m1", semanticId |-> GlobalReference(<<"S1", "S2">>)] >>]
        sB == [id |-> "sB", submodelDescriptors |->
                 << [id |-> "m2", semanticId |->
                        [form |-> "dict", keys |-> <<>>, value |-> <<"S2">>]],
                    [id |-> "m3", semanticId |->
                        [form |-> "str", keys |-> <<>>, value |-> <<"S1">>]] >>]
        sC == [id |-> "sC", submodelDescriptors |->
                 << [id |-> "m4", semanticId |-> GlobalReference(<<>>)] >>]
        \* what discover_shells answers for one BPN
        SHELL_RESULTS ==
            { [exception |-> TRUE, shellDescriptors |-> <<>>] } \cup
            { [exception |-> FALSE, shellDescriptors |-> s] :
                s \in {<<>>, <<sC, sA>>, <<sB>>, <<sC>>} }
        \* _query_bpns_for_shells: the first shell, in the order of the BPNs
        \* and of each answer, that has a submodel of the semantic id
        QueryBpnsForShells(bpn_list, shell_results, semantic_id) ==
            LET Matches(shell) ==
                    \E n \in DOMAIN shell.submodelDescriptors :
                        extract_semantic_id(shell.submodelDescriptors[n]) = semantic_id
                hits == { h \in (DOMAIN bpn_list) \X (1..2) :
                            /\ ~shell_results[bpn_list[h[1]]].exception
                            /\ h[2] <= Len(shell_results[bpn_list[h[1]]].shellDescriptors)
                            /\ Matches(shell_results[bpn_list[h[1]]].shellDescriptors[h[2]]) }
                first == CHOOSE h \in hits :
                            \A g \in hits : h[1] < g[1] \/ (h[1] = g[1] /\ h[2] <= g[2])
            IN  IF hits = {} THEN <<>>
                ELSE << [shell |-> shell_results[bpn_list[first[1]]].shellDescriptors[first[2]],
                         bpn |-> bpn_list[first[1]]] >>
        \* _find_matching_submodel
        FindMatchingSubmodel(shell_descriptor, semantic_id) ==
            LET found == { n \in DOMAIN shell_descriptor.submodelDescriptors :
                             extract_semantic_id(shell_descriptor.submodelDescriptors[n])
                                = semantic_id }
            IN  IF found = {} THEN <<>>
                ELSE << shell_descriptor.submodelDescriptors[
                            CHOOSE n \in found : \A o \in found : n <= o] >>
        Update(step, message, progress) ==
            UpdateTask(_tasks, task_id, step, message, progress, "in_progress", <<>>, <<>>)
        Goto(pc, store, frame) ==
            /\ _tasks' = store
            /\ background_tasks' = [background_tasks EXCEPT ![task_id] = [frame EXCEPT !.pc = pc]]
        \* except Exception as e: mark_failed(task_id, str(e))
        Raise(frame, error) == Goto("done", MarkFailed(_tasks, task_id, error), frame)
    IN  /\ task_id \in DOMAIN background_tasks
        /\ f.pc # "done"
        /\ CASE f.pc = "scheduled" ->
                  Goto("parse", Update("parsing", <<"Parsing identifier...">>, 10), f)
             [] f.pc = "parse" ->
                  \* parse_id, then the second update
                  IF ValidateIdFormat(f.id_str) # <<>>
                  THEN Raise(f, ValidateIdFormat(f.id_str)[1])
                  ELSE Goto("discover_bpn",
                            Update("discovering_bpn",
                                   <<"Looking up BPN owner for ", f.id_str[2], "...">>, 25),
                            [f EXCEPT !.manufacturer_part_id = f.id_str[2],
                                      !.part_instance_id = f.id_str[3]])
             [] f.pc = "discover_bpn" ->
                  \* discover_bpn raises, or returns the list of the BPNs
                  \/ Raise(f, <<"BPN Discovery failed: ", "Discovery OAuth service is not available">>)
                  \/ \E bpn_list \in {<<>>, <<"B1">>, <<"B2", "B1">>} :
                        IF bpn_list = <<>>
                        THEN Raise([f EXCEPT !.bpn_list = <<bpn_list>>],
                                   <<"No BPN found for manufacturerPartId: ",
                                     f.manufacturer_part_id>>)
                        ELSE Goto("query",
                                  Update("retrieving_twin",
                                         <<"Retrieving digital twin from DTR across ",
                                           ToString(Len(bpn_list)), " BPN(s)...">>, 50),
                                  [f EXCEPT !.bpn_list = <<bpn_list>>])
             [] f.pc = "query" ->
                  \E shell_results \in [{"B1", "B2"} -> SHELL_RESULTS] :
                     LET found == QueryBpnsForShells(f.bpn_list[1], shell_results, f.semantic_id)
                     IN  IF found = <<>>
                         THEN Raise(f, <<"Digital twin shell with semanticId '", f.semantic_id,
                                         "' not found">>)
                         ELSE Goto("lookup",
                                   Update("looking_up_submodel",
                                          <<"Searching for submodel with matching semantic ID...">>,
                                          70),
                                   [f EXCEPT !.shell_descriptor = <<found[1].shell>>,
                                             !.matching_bpn = found[1].bpn])
             [] f.pc = "lookup" ->
                  LET matching_submodel ==
                          FindMatchingSubmodel(f.shell_descriptor[1], f.semantic_id)
                  IN  IF matching_submodel = <<>>
                      THEN Raise(f, <<"No submodel found with semanticId: ", f.semantic_id>>)
                      ELSE Goto("consume",
                                Update("consuming_data", <<"Retrieving submodel data...">>, 85),
                                [f EXCEPT !.submodel_id = matching_submodel[1].id])
             [] f.pc = "consume" ->
                  \* _consume_submodel_data: discover_submodel raises, or answers
                  \* with or without the submodel
                  \/ Raise(f, <<"discover_submodel failed">>)
                  \/ \E submodel_data \in {<<>>, << [payload |-> f.submodel_id] >>} :
                        Goto("done",
                             UpdateTask(_tasks, task_id, "complete",
                                        <<"Discovery completed successfully">>, 100,
                                        "completed", f.shell_descriptor, submodel_data),
                             f)
        /\ UNCHANGED <<_semantic_id_cache, remote_submodels, repos, threads, locks, logger, verbose, now, known_dtrs, shell_descriptors, ret, ds, client_cursor>>

\* POST /addons/ecopass/discover/: discover_dpp
DiscoverDpp(id_str, semantic_id) ==
    \E task_id \in GenerateTaskId(_tasks) :
        LET invalid == ValidateIdFormat(id_str)
        IN  /\ _tasks' = CreateTask(_tasks, task_id)
            /\ IF invalid # <<>>
               THEN \* HTTPException(400), raised again by "except HTTPException"
                    /\ background_tasks' = background_tasks
                    /\ ret' = [op |-> "discover_dpp", id |-> id_str, status_code |-> 400,
                               detail |-> invalid[1], taskId |-> <<>>]
               ELSE /\ background_tasks' =
                          (task_id :> [pc |-> "scheduled", id_str |-> id_str,
                                       semantic_id |-> semantic_id,
                                       manufacturer_part_id |-> "", part_instance_id |-> "",
                                       bpn_list |-> <<>>, shell_descriptor |-> <<>>,
                                       matching_bpn |-> "", submodel_id |-> ""])
                          @@ background_tasks
                    /\ ret' = [op |-> "discover_dpp", id |-> id_str, status_code |-> 202,
                               taskId |-> <<task_id>>, status |-> "in_progress",
                               step |-> "parsing", message |-> <<"Discovery task started">>,
                               progress |-> 0, digitalTwin |-> <<>>, data |-> <<>>]
            /\ UNCHANGED <<_semantic_id_cache, remote_submodels, repos, threads, locks, logger, verbose, now, known_dtrs, shell_descriptors, ds, client_cursor>>

\* GET /addons/ecopass/discover/{task_id}/status: get_discovery_status
GetDiscoveryStatus(task_id) ==
    /\ ret' = IF task_id \notin DOMAIN _tasks
              THEN [op |-> "get_discovery_status", status_code |-> 404, taskId |-> <<task_id>>]
              ELSE [op |-> "get_discovery_status", status_code |-> 200,
                    taskId |-> <<task_id>>, status |-> _tasks[task_id].status,
                    step |-> _tasks[task_id].step, message |-> _tasks[task_id].message,
                    progress |-> _tasks[task_id].progress,
                    digitalTwin |-> _tasks[task_id].digital_twin,
                    data |-> _tasks[task_id].data]
    /\ UNCHANGED <<addon_vars, logger, verbose, now, known_dtrs, shell_descriptors, ds, client_cursor>>

NextDpp ==
    \/ \E id_str \in {<<"CX", "P1", "I1">>, <<"P1", "I1">>, <<"CX", "P1">>,
                      <<"CX", "P1", "I1", "x">>} : DiscoverDpp(id_str, "S1")
    \/ \E task_id \in {"t1", "t2"} : ExecuteDiscovery(task_id)
    \/ \E task_id \in {"t1", "t2"} : GetDiscoveryStatus(task_id)

SpecDpp == Init /\ [][NextDpp]_vars

\* the event loop runs every coroutine it was handed, and every external call
\* returns or raises
SpecDppFair == SpecDpp /\ \A task_id \in {"t1", "t2"} : WF_vars(ExecuteDiscovery(task_id))

----------------------------------------------------------------------------
(* Properties of the DPP discovery tasks (specifications SpecDpp and         *)
(* SpecDppFair)                                                              *)

\* C22: the progress of a task never decreases, from create_task over every
\* update_task of execute_discovery to mark_failed, and stays within 0..100
C22_ProgressNeverDecreases ==
    [][\A t \in DOMAIN _tasks' :
          /\ _tasks'[t].progress \in 0..100
          /\ t \in DOMAIN _tasks => _tasks[t].progress <= _tasks'[t].progress]_vars

\* a task failed in the middle of the workflow and kept its progress
C22_Witness ==
    \E t \in DOMAIN _tasks : _tasks[t].status = "failed" /\ _tasks[t].progress = 50

\* C23: completed and failed are terminal: no later step changes the status,
\* the step, the progress, the data or the error of such a task
C23_TerminalStatuses ==
    [][\A t \in DOMAIN _tasks :
          _tasks[t].status \in {"completed", "failed"} =>
              /\ t \in DOMAIN _tasks'
              /\ \A field \in {"status", "step", "progress", "data", "error"} :
                    _tasks'[t][field] = _tasks[t][field]]_vars

\* both tasks are over, one completed and one failed, and the completed one
\* was polled afterwards
C23_Witness ==
    /\ \E t \in DOMAIN _tasks : _tasks[t].status = "failed"
    /\ \E t \in DOMAIN _tasks :
          /\ _tasks[t].status = "completed"
          /\ ret.op = "get_discovery_status"
          /\ ret.taskId = <<t>>
          /\ ret.status_code = 200
          /\ ret.status = "completed"

\* C24: every task the POST route puts into the store reaches completed or
\* failed, when every coroutine runs and every external call returns or raises
C24_EveryTaskResolves ==
    \A t \in {"t1", "t2"} :
        (t \in DOMAIN _tasks) ~>
            (t \in DOMAIN _tasks /\ _tasks[t].status \in {"completed", "failed"})

\* C25: when a step raises, the task ends failed with the step and the
\* progress of the step in progress and with the message of the exception; an
\* empty answer of BPN discovery ends it failed at discovering_bpn, 25, with
\* an error that starts with "No BPN found"
C25_FailurePreservesStep ==
    [][\A t \in DOMAIN background_tasks :
          LET InProgress == [parse |-> <<"parsing", 10>>,
                             discover_bpn |-> <<"discovering_bpn", 25>>,
                             query |-> <<"retrieving_twin", 50>>,
                             lookup |-> <<"looking_up_submodel", 70>>,
                             consume |-> <<"consuming_data", 85>>]
              before == background_tasks[t]
              after == background_tasks'[t]
          IN  (before.pc # "done" /\ after.pc = "done" /\ _tasks'[t].status # "completed") =>
                  /\ _tasks'[t].status = "failed"
                  /\ before.pc \in DOMAIN InProgress
                  /\ <<_tasks'[t].step, _tasks'[t].progress>> = InProgress[before.pc]
                  /\ _tasks'[t].error # <<>>
                  /\ _tasks'[t].message = <<"Discovery failed: ">> \o _tasks'[t].error[1]
                  /\ after.bpn_list = << <<>> >> =>
                        /\ _tasks'[t].step = "discovering_bpn"
                        /\ _tasks'[t].progress = 25
                        /\ _tasks'[t].error[1][1] = "No BPN found for manufacturerPartId: "]_vars

\* BPN discovery answered with no BPN and the task is failed
C25_Witness ==
    \E t \in DOMAIN background_tasks :
        /\ background_tasks[t].pc = "done"
        /\ background_tasks[t].bpn_list = << <<>> >>
        /\ _tasks[t].status = "failed"

\* C26: a task goes through parsing(10), discovering_bpn(25),
\* retrieving_twin(50), looking_up_submodel(70), consuming_data(85) and
\* complete(100) one after the other, none skipped or repeated; it is
\* completed exactly at complete(100), and a failure leaves it where it was
C26_StepsInOrder ==
    [][\A t \in DOMAIN _tasks' :
          LET Steps == << <<"parsing", 0>>, <<"parsing", 10>>, <<"discovering_bpn", 25>>,
                          <<"retrieving_twin", 50>>, <<"looking_up_submodel", 70>>,
                          <<"consuming_data", 85>>, <<"complete", 100>> >>
              At(store) == <<store[t].step, store[t].progress>>
          IN  IF t \notin DOMAIN _tasks
              THEN At(_tasks') = Steps[1] /\ _tasks'[t].status = "in_progress"
              ELSE /\ \/ At(_tasks') = At(_tasks)
                      \/ /\ _tasks[t].status = "in_progress"
                         /\ _tasks'[t].status # "failed"
                         /\ \E n \in 1..6 : At(_tasks) = Steps[n] /\ At(_tasks') = Steps[n + 1]
                   /\ _tasks'[t].status = "completed" <=> At(_tasks') = Steps[7]]_vars

\* a task went through all the steps and holds the submodel
C26_Witness ==
    \E t \in DOMAIN _tasks :
        /\ _tasks[t].status = "completed"
        /\ _tasks[t].data # <<>>
        /\ _tasks[t].digital_twin # <<>>

\* C27: the POST route accepts every request, whatever its id: it answers 202
\* with the id of a task of the store and the status in_progress, parsing, 0
C27_AcceptNeverFails ==
    ret.op = "discover_dpp" =>
        /\ ret.status_code = 202
        /\ ret.taskId # <<>>
        /\ ret.taskId[1] \in DOMAIN _tasks
        /\ <<ret.status, ret.step, ret.progress>> = <<"in_progress", "parsing", 0>>

----------------------------------------------------------------------------
(* The submodel blob store with the HTTP backend                             *)
(* (provider.submodel_dispatcher.mode = "http"): the facade                  *)
(* SubmodelServiceManager over HttpSubmodelAdapter, and the adapter's        *)
(* path-based interface.  A path is held as the list path.split("/"), the    *)
(* external service as the set of the (semantic id, submodel id) it stores.  *)

\* one request to {base_url}{api_path}/{semantic_id}/{submodel_id}/submodel that
\* the service answers with the status: read_submodel, write_submodel,
\* delete_submodel and exists_submodel with _handle_response
HttpSubmodel(operation, semantic_id, submodel_id, status, store) ==
    LET key == <<semantic_id, submodel_id>>
        error == IF operation = "exists" \/ status \in {200, 201, 204} THEN ""
                 ELSE IF status = 404 THEN "NotFoundError"
                 ELSE IF status \in {400, 422} THEN "InvalidError"
                 ELSE IF status \in {401, 403} THEN "PermissionError"
                 ELSE "RuntimeError"
    IN  [forwarded |-> TRUE,
         method |-> CASE operation = "read" -> "GET" [] operation = "write" -> "POST"
                      [] operation = "delete" -> "DELETE" [] operation = "exists" -> "HEAD",
         target |-> <<key>>,
         error |-> error,
         content |-> IF operation = "read" /\ error = "" /\ status # 204 THEN <<key>> ELSE <<>>,
         exists |-> operation = "exists" /\ status = 200,
         store |-> IF error # "" \/ status >= 400 THEN store
                   ELSE IF operation = "write" THEN store \cup {key}
                   ELSE IF operation = "delete" THEN store \ {key}
                   ELSE store]

\* the path-based read, write, delete and exists of the adapter
AdapterPath(operation, path, cache, status, store) ==
    LET Stem == [f \in {"u1.json", "u2.json", "x.json"} |->
                    CASE f = "u1.json" -> "u1" [] f = "u2.json" -> "u2" [] OTHER -> "x"]
        Refused(error) ==
            [forwarded |-> FALSE, method |-> "", target |-> <<>>,
             error |-> IF operation = "exists" THEN "" ELSE error,
             content |-> <<>>, exists |-> FALSE, store |-> store]
    IN  IF Len(path) < 2 THEN Refused("InvalidError: Invalid path format")
        ELSE IF Stem[path[2]] \notin {"u1", "u2"}
             THEN Refused("InvalidError: Invalid submodel ID in path")
        ELSE IF path[1] \notin DOMAIN cache
             THEN Refused("InvalidError: Cannot resolve semantic_id for SHA256 hash")
        ELSE HttpSubmodel(operation, cache[path[1]], Stem[path[2]], status, store)

\* the status the external service gives to a request: the one that goes with
\* what it stores, or a server error
ServiceStatus(operation, key, store) ==
    { IF operation = "write" THEN 201
      ELSE IF key \notin store THEN 404
      ELSE IF operation = "delete" THEN 204 ELSE 200, 500 }

\* upload_twin_aspect_document (write), get_twin_aspect_document (read) and
\* delete_twin_aspect_document (delete): _execute_submodel_operation
ExecuteSubmodelOperation(operation, submodel_id, semantic_id) ==
    LET adapter_mode == "http"
        adapter_is_http == adapter_mode = "http"       \* __init__ builds the adapter of the mode
        \* _get_filesystem_path: sha256(semantic_id).hexdigest() and the file path
        Sha256 == [s \in {"S1", "S2"} |-> IF s = "S1" THEN "h1" ELSE "h2"]
        file_path == <<Sha256[semantic_id], IF submodel_id = "u1" THEN "u1.json" ELSE "u2.json">>
        call == [op |-> operation, facade |-> TRUE, semantic_id |-> semantic_id,
                 submodel_id |-> submodel_id]
    IN  /\ IF submodel_id \notin {"u1", "u2"}
           THEN \* _validate_uuid
                /\ ret' = call @@ [forwarded |-> FALSE, error |-> "InvalidError: Invalid UUID"]
                /\ UNCHANGED <<_semantic_id_cache, remote_submodels>>
           ELSE IF adapter_mode = "http" /\ adapter_is_http
           THEN \E status \in ServiceStatus(operation, <<semantic_id, submodel_id>>, remote_submodels) :
                   LET r == HttpSubmodel(operation, semantic_id, submodel_id, status,
                                         remote_submodels)
                   IN  /\ ret' = call @@ [x \in DOMAIN r \ {"store"} |-> r[x]]
                       /\ remote_submodels' = r.store
                       /\ UNCHANGED _semantic_id_cache
           ELSE \* the filesystem layout: the hash is cached for an HTTP adapter
                \E status \in ServiceStatus(operation, <<semantic_id, submodel_id>>, remote_submodels) :
                   LET cache == IF adapter_is_http
                                THEN (file_path[1] :> semantic_id) @@ _semantic_id_cache
                                ELSE _semantic_id_cache
                       there == AdapterPath("exists", file_path, cache, status, remote_submodels)
                       r == IF operation \in {"read", "delete"} /\ ~there.exists
                            THEN [there EXCEPT !.error = "NotFoundError"]
                            ELSE AdapterPath(operation, file_path, cache, status, remote_submodels)
                   IN  /\ ret' = call @@ [x \in DOMAIN r \ {"store"} |-> r[x]]
                       /\ remote_submodels' = r.store
                       /\ _semantic_id_cache' = cache
        /\ UNCHANGED <<_tasks, background_tasks, repos, threads, locks, logger, verbose, now, known_dtrs, shell_descriptors, ds, client_cursor>>

\* a caller of the legacy interface: adapter.read, write, delete or exists of a path
PathOperation(operation, path) ==
    /\ \E status \in {200, 201, 204, 404, 500} :
          LET r == AdapterPath(operation, path, _semantic_id_cache, status, remote_submodels)
          IN  /\ r.forwarded => status \in ServiceStatus(operation, r.target[1], remote_submodels)
              /\ ~r.forwarded => status = 200
              /\ ret' = [op |-> operation, facade |-> FALSE, path |-> path]
                          @@ [x \in DOMAIN r \ {"store"} |-> r[x]]
              /\ remote_submodels' = r.store
    /\ UNCHANGED <<_tasks, background_tasks, _semantic_id_cache, repos, threads, locks, logger, verbose, now, known_dtrs, shell_descriptors, ds, client_cursor>>

NextSubmodelService ==
    \/ \E operation \in {"read", "write", "delete"}, submodel_id \in {"u1", "u2", "x"},
          semantic_id \in {"S1", "S2"} :
          ExecuteSubmodelOperation(operation, submodel_id, semantic_id)
    \/ \E operation \in {"read", "write", "delete", "exists"},
          path \in {<<"h1">>, <<"h1", "u1.json">>, <<"h1", "u2.json">>, <<"h2", "u1.json">>,
                    <<"h1", "x.json">>} :
          PathOperation(operation, path)

SpecSubmodelService == Init /\ [][NextSubmodelService]_vars

\* C28: with the HTTP backend, after a facade operation for a semantic id S
\* the adapter's cache maps sha256(S) to S, and a path-based operation on
\* {sha256(S)}/{uuid}.json of a submodel the facade uploaded is forwarded to
\* the external service for (S, uuid)
C28_FacadeFillsTheCache ==
    /\ (ret.op \in {"read", "write", "delete"} /\ ret.facade /\ ret.forwarded) =>
          \E h \in DOMAIN _semantic_id_cache : _semantic_id_cache[h] = ret.semantic_id
    /\ (ret.op \in {"read", "write", "delete", "exists"} /\ ~ret.facade
          /\ ret.path = <<"h1", "u1.json">> /\ <<"S1", "u1">> \in remote_submodels) =>
          ret.forwarded /\ ret.target = << <<"S1", "u1">> >>

----------------------------------------------------------------------------
(* The part management service of the provider: create_catalog_part over the *)
(* repositories of the metadata database.  The tables hold their committed   *)
(* rows in the order of their creation; the id of a row is its position.     *)

\* legal_entity_repository.get_by_bpnl: the row of the BPNL, or None
GetByBpnl(tables, bpnl) ==
    LET found == {n \in DOMAIN tables.legal_entity : tables.legal_entity[n].bpnl = bpnl}
    IN  IF found = {} THEN <<>> ELSE << CHOOSE n \in found : \A o \in found : n <= o >>

\* catalog_part_repository.get_by_legal_entity_id_manufacturer_part_id: the
\* row of the pair, or None
GetByLegalEntityIdManufacturerPartId(tables, legal_entity_id, manufacturer_part_id) ==
    LET found == {n \in DOMAIN tables.catalog_part :
                    /\ tables.catalog_part[n].legal_entity_id = legal_entity_id
                    /\ tables.catalog_part[n].manufacturer_part_id = manufacturer_part_id}
    IN  IF found = {} THEN <<>> ELSE << CHOOSE n \in found : \A o \in found : n <= o >>

\* a validation that looks at each share on its own
ManageShareErrorEachShare(materials) ==
    IF \E n \in DOMAIN materials : materials[n] < 0 \/ materials[n] > 100
    THEN <<"InvalidError: The share of materials is invalid">>
    ELSE <<>>

\* _manage_share_error: <<>> when it returns, else the InvalidError it raises
ManageShareError(materials) ==
    LET RECURSIVE Sum(_)
        Sum(n) == IF n = 0 THEN 0 ELSE Sum(n - 1) + materials[n]
        total_share == Sum(Len(materials))
    IN  IF total_share < 0 THEN <<"InvalidError: The share of materials is invalid">>
        ELSE IF total_share > 100 THEN <<"InvalidError: The share of materials is invalid">>
        ELSE <<>>

\* create_catalog_part
CreateCatalogPart(catalog_part_create) ==
    LET share_error == IF catalog_part_create.materials # <<>>
                       THEN ManageShareError(catalog_part_create.materials)
                       ELSE <<>>
        \* the legal entity of the manufacturer, created and committed when missing
        existing == GetByBpnl(repos, catalog_part_create.manufacturer_id)
        with_legal_entity ==
            IF existing = <<>>
            THEN [repos EXCEPT !.legal_entity =
                     Append(@, [bpnl |-> catalog_part_create.manufacturer_id])]
            ELSE repos
        db_legal_entity == GetByBpnl(with_legal_entity, catalog_part_create.manufacturer_id)[1]
        db_catalog_part ==
            GetByLegalEntityIdManufacturerPartId(with_legal_entity, db_legal_entity,
                                                 catalog_part_create.manufacturer_part_id)
        \* the catalog part, created and committed
        with_catalog_part ==
            [with_legal_entity EXCEPT !.catalog_part =
                Append(@, [legal_entity_id |-> db_legal_entity,
                           manufacturer_part_id |-> catalog_part_create.manufacturer_part_id])]
        \* _get_business_partner_by_name
        GetBusinessPartnerError(partner_catalog_part_create) ==
            IF partner_catalog_part_create.customer_part_id = ""
            THEN "InvalidError: Customer part ID is required for a customer part mapping."
            ELSE IF partner_catalog_part_create.business_partner_name = ""
            THEN "InvalidError: Business partner name is required for a customer part mapping."
            ELSE IF \A n \in DOMAIN repos.business_partner :
                       repos.business_partner[n].name
                          # partner_catalog_part_create.business_partner_name
            THEN "NotFoundError: Business partner does not exist. Please create it first."
            ELSE ""
        customer_part_ids == catalog_part_create.customer_part_ids
        failing == {n \in DOMAIN customer_part_ids :
                       GetBusinessPartnerError(customer_part_ids[n]) # ""}
        \* the mappings of the loop, committed when the with block is left
        with_mappings ==
            [with_catalog_part EXCEPT !.partner_catalog_part =
                @ \o [n \in DOMAIN customer_part_ids |->
                        [business_partner_name |-> customer_part_ids[n].business_partner_name,
                         customer_part_id |-> customer_part_ids[n].customer_part_id,
                         catalog_part_id |-> Len(with_catalog_part.catalog_part)]]]
        call == [op |-> "create_catalog_part", catalog_part_create |-> catalog_part_create]
    IN  /\ IF share_error # <<>>
           THEN /\ ret' = call @@ [error |-> share_error[1], status |-> 0]
                /\ repos' = repos
           ELSE IF db_catalog_part # <<>>
           THEN /\ ret' = call @@ [error |-> "AlreadyExistsError: Catalog part already exists.",
                                   status |-> 0]
                /\ repos' = with_legal_entity
           ELSE IF failing # {}
           THEN \* the exception leaves the with block: the mappings of this call
                \* that were not committed are rolled back
                /\ ret' = call @@
                      [error |-> GetBusinessPartnerError(
                                    customer_part_ids[CHOOSE n \in failing :
                                                         \A o \in failing : n <= o]),
                       status |-> 0]
                /\ repos' = with_catalog_part
           ELSE /\ ret' = call @@ [error |-> "", status |-> 2]
                /\ repos' = with_mappings
        /\ UNCHANGED <<_tasks, background_tasks, _semantic_id_cache, remote_submodels, threads, locks, logger, verbose, now, known_dtrs, shell_descriptors, ds, client_cursor>>

NextParts ==
    \E part \in {<<"L1", "P1">>, <<"L1", "P2">>, <<"L2", "P1">>},
       materials \in {<<>>, <<60, 40>>, <<60, 50>>, <<-60, -50>>, <<150, -60>>, <<-10, 10>>},
       customer_part_ids \in
          { <<>>,
            << [customer_part_id |-> "C1", business_partner_name |-> "BP1"] >>,
            << [customer_part_id |-> "C1", business_partner_name |-> "BP1"],
               [customer_part_id |-> "C2", business_partner_name |-> "BP9"] >>,
            << [customer_part_id |-> "", business_partner_name |-> "BP1"] >> } :
       /\ materials = <<>> \/ customer_part_ids = <<>>
       /\ CreateCatalogPart([manufacturer_id |-> part[1], manufacturer_part_id |-> part[2],
                             materials |-> materials,
                             customer_part_ids |-> customer_part_ids])

SpecParts == Init /\ [][NextParts]_vars

\* C29: create_catalog_part raises the InvalidError of _manage_share_error
\* exactly when the sum of the shares of the materials is below 0 or above
\* 100, whatever the single shares are, and then no legal entity and no
\* catalog part is created
C29_ShareOfTheSum ==
    [][ret'.op = "create_catalog_part" =>
          LET materials == ret'.catalog_part_create.materials
              Share(n) == IF n <= Len(materials) THEN materials[n] ELSE 0
              total == Share(1) + Share(2) + Share(3)
          IN  /\ ret'.error = "InvalidError: The share of materials is invalid"
                    <=> (total < 0 \/ total > 100)
              /\ (total < 0 \/ total > 100) => repos' = repos]_vars

\* shares of 60 and 50, each within the range, were refused and the tables
\* are still empty
C29_Witness ==
    /\ ret.op = "create_catalog_part"
    /\ ret.catalog_part_create.materials = <<60, 50>>
    /\ ret.error = "InvalidError: The share of materials is invalid"
    /\ repos.legal_entity = <<>>
    /\ repos.catalog_part = <<>>

\* C30: there is at most one catalog part per (legal entity,
\* manufacturerPartId); a call that passes the share validation raises
\* AlreadyExistsError and creates nothing when the pair exists, and else
\* creates exactly one catalog part, with its legal entity, and returns status 2
C30_OneCatalogPartPerPair ==
    [][ret'.op = "create_catalog_part" =>
          LET create == ret'.catalog_part_create
              Pair(tables, n) ==
                  <<tables.legal_entity[tables.catalog_part[n].legal_entity_id].bpnl,
                    tables.catalog_part[n].manufacturer_part_id>>
              Parts(tables) ==
                  {n \in DOMAIN tables.catalog_part :
                      Pair(tables, n) = <<create.manufacturer_id, create.manufacturer_part_id>>}
          IN  /\ \A n, o \in DOMAIN repos'.catalog_part :
                    Pair(repos', n) = Pair(repos', o) => n = o
              /\ ret'.error # "InvalidError: The share of materials is invalid" =>
                    IF Parts(repos) # {}
                    THEN /\ ret'.error = "AlreadyExistsError: Catalog part already exists."
                         /\ repos' = repos
                    ELSE /\ Len(repos'.catalog_part) = Len(repos.catalog_part) + 1
                         /\ Cardinality(Parts(repos')) = 1
                         /\ \E n \in DOMAIN repos'.legal_entity :
                               repos'.legal_entity[n].bpnl = create.manufacturer_id
                         /\ ret'.error = ""
                         /\ ret'.status = 2]_vars

----------------------------------------------------------------------------
(* Further properties of the DPP discovery tasks (specification SpecDpp)     *)

\* C36: a task is completed only when the consuming_data step obtained the
\* payload of the submodel: every completed task holds a digital twin and a
\* non-empty data
C36_CompletedHoldsThePayload ==
    \A t \in DOMAIN _tasks :
        _tasks[t].status = "completed" =>
            /\ _tasks[t].digital_twin # <<>>
            /\ _tasks[t].data # <<>>

----------------------------------------------------------------------------
(* Further properties of discover_shells (specification SpecShells)          *)

\* C32: in the page state the next cursor carries, a DTR is marked exhausted
\* exactly when the incoming cursor marked it exhausted, or it was queried
\* successfully in this call and its registry returned no next cursor; a DTR the
\* incoming cursor marks exhausted is neither negotiated nor queried
C32_ExhaustedIffNoNextCursor ==
    (ret.op = "discover_shells" /\ ret.response.next # <<>>) =>
        LET incoming == IF ret.cursor = <<>> THEN <<>>
                        ELSE decode_page_token(ret.cursor[1]).dtr_states
            was_exhausted(a) == StateOf(incoming, a, DtrPaginationState(a)).exhausted
            results == Range(ret.response.dtrs)
            page == decode_page_token(ret.response.next[1])
        IN /\ \A a \in DOMAIN page.dtr_states :
                  page.dtr_states[a].exhausted <=>
                      \/ was_exhausted(a)
                      \/ \E r \in results : /\ r.assetId = a
                                            /\ r.status = "connected"
                                            /\ r.paging_cursor = <<>>
           /\ \A a \in DOMAIN incoming :
                  was_exhausted(a) =>
                      /\ a \notin ret.negotiated
                      /\ \A r \in results : r.assetId # a

\* C33: the Shell Index is written through: when discover_shells returns, every
\* descriptor it fetched is in the index under its id, every descriptor of
\* response.shellDescriptors is the index entry of its id, and with no limit and no
\* cursor shellsFound is the number of shell ids the DTRs returned
C33_ShellIndexWriteThrough ==
    [][(ds.pc = "finish" /\ ds'.pc = "returned") =>
        LET response == ret'.response
            returned_ids == [i \in DOMAIN ds.dtr_results |-> Len(ds.dtr_results[i].shells)]
        IN /\ \A s \in ds.fetched :
                  s \in DOMAIN shell_descriptors' /\ shell_descriptors'[s].id = s
           /\ \A i \in DOMAIN response.shellDescriptors :
                  /\ response.shellDescriptors[i].id \in DOMAIN shell_descriptors'
                  /\ shell_descriptors'[response.shellDescriptors[i].id] =
                         response.shellDescriptors[i]
           /\ (ds.limit = <<>> /\ ds.cursor = <<>>) =>
                  response.shellsFound = SeqSum(returned_ids)]_vars

\* C38: pagination is complete and free of duplicates. A call with a limit L >= 1
\* whose DTRs all answer successfully accounts for every shell id exactly once: the
\* ids the incoming cursor leaves to be returned (all the ids the DTRs hold, on the
\* first call) are the ids of the page together with the ids pagination.next leaves,
\* no id is in both, no id is twice in the page, and pagination.next is absent only
\* when nothing is left
C38_PaginationCompleteNoDuplicates ==
    [][(/\ ds.pc = "finish" /\ ds'.pc = "returned"
        /\ Truthy(ds.limit)
        /\ \A i \in DOMAIN ds.dtr_results :
               /\ ds.dtr_results[i].status = "connected"
               /\ Range(ds.dtr_results[i].shells) \subseteq ds.fetched) =>
        LET response == ret'.response
            Left(dtr_states) ==
                UNION {LET a == ds.dtrs[i].asset_id
                           st == StateOf(dtr_states, a, DtrPaginationState(a))
                           first == IF st.cursor = <<>> THEN 1 ELSE st.cursor[1] + 1
                       IN IF st.exhausted THEN {}
                          ELSE {Holdings(a)[k] : k \in first .. Len(Holdings(a))}
                       : i \in DOMAIN ds.dtrs}
            page == {response.shellDescriptors[i].id : i \in DOMAIN response.shellDescriptors}
            after == IF response.next = <<>> THEN {}
                     ELSE Left(decode_page_token(response.next[1]).dtr_states)
        IN /\ Cardinality(page) = Len(response.shellDescriptors)
           /\ page \cap after = {}
           /\ page \cup after = Left(ds.current_page.dtr_states)]_vars

----------------------------------------------------------------------------
(* Further properties of discover_submodels (specification SpecSubmodels)    *)

\* C39: the token sent with the GET of a submodel's href was negotiated with the
\* governance policies of that submodel's own semantic id and at its own connector
\* URL: grouping by assetId never fetches data under the policies or the connector
\* of another descriptor
C39_TokenOfOwnPolicies ==
    (ret.op = "discover_submodels" /\ ret.shell_result.shell_descriptor # <<>>) =>
        LET submodel_descriptors == ret.shell_result.shell_descriptor[1].submodelDescriptors
            outbound == Range(ret.result.calls)
        IN \A c \in {x \in outbound : x.call = "get_href"} :
           \A i \in DOMAIN submodel_descriptors :
               LET info == ExtractSubmodelEndpointInfo(submodel_descriptors[i])
                   semantic_id == ExtractSemanticId(submodel_descriptors[i])
               IN (info.href = c.target /\ semantic_id # <<>>) =>
                      \E n \in {x \in outbound : x.call = "do_dsp_by_asset_id"} :
                          /\ c.query = <<"token", n.target>>
                          /\ n.target = info.asset_id
                          /\ n.url = info.connector_url
                          /\ n.policies = ret.governance[1][semantic_id[1]]

----------------------------------------------------------------------------
(* The provider side: the part management writes that go through             *)
(* _find_catalog_part (create_serialized_part and                             *)
(* create_partner_catalog_part_mapping, next to create_catalog_part) and the  *)
(* asset synchronization job.  A serialized part row holds the id of its      *)
(* partner catalog part and its part instance id.                             *)

\* a lookup that creates the missing catalog part whatever the flag says
FindCatalogPartAlwaysGenerates(tables, manufacturer_id, manufacturer_part_id, auto_generate) ==
    LET with_legal_entity ==
            IF GetByBpnl(tables, manufacturer_id) = <<>>
            THEN [tables EXCEPT !.legal_entity = Append(@, [bpnl |-> manufacturer_id])]
            ELSE tables
        db_legal_entity == GetByBpnl(with_legal_entity, manufacturer_id)[1]
        db_catalog_part ==
            GetByLegalEntityIdManufacturerPartId(with_legal_entity, db_legal_entity,
                                                 manufacturer_part_id)
        with_catalog_part ==
            [with_legal_entity EXCEPT !.catalog_part =
                Append(@, [legal_entity_id |-> db_legal_entity,
                           manufacturer_part_id |-> manufacturer_part_id])]
    IN  IF db_catalog_part # <<>>
        THEN [tables |-> with_legal_entity, error |-> "", db_catalog_part |-> db_catalog_part]
        ELSE [tables |-> with_catalog_part, error |-> "",
              db_catalog_part |-> << Len(with_catalog_part.catalog_part) >>]

\* _find_catalog_part: the tables after its commits, the NotFoundError it raises
\* ("" when it returns) and the catalog part it returns. A missing legal entity is
\* created and committed before the catalog part is looked up
FindCatalogPart(tables, manufacturer_id, manufacturer_part_id, auto_generate) ==
    LET with_legal_entity ==
            IF GetByBpnl(tables, manufacturer_id) = <<>>
            THEN [tables EXCEPT !.legal_entity = Append(@, [bpnl |-> manufacturer_id])]
            ELSE tables
        db_legal_entity == GetByBpnl(with_legal_entity, manufacturer_id)[1]
        db_catalog_part ==
            GetByLegalEntityIdManufacturerPartId(with_legal_entity, db_legal_entity,
                                                 manufacturer_part_id)
        with_catalog_part ==
            [with_legal_entity EXCEPT !.catalog_part =
                Append(@, [legal_entity_id |-> db_legal_entity,
                           manufacturer_part_id |-> manufacturer_part_id])]
    IN  IF db_catalog_part # <<>>
        THEN [tables |-> with_legal_entity, error |-> "", db_catalog_part |-> db_catalog_part]
        ELSE IF auto_generate
        THEN [tables |-> with_catalog_part, error |-> "",
              db_catalog_part |-> << Len(with_catalog_part.catalog_part) >>]
        ELSE [tables |-> with_legal_entity, error |-> "NotFoundError: Catalog part not found.",
              db_catalog_part |-> <<>>]

\* create_serialized_part. The customer part id generated for a new mapping is
\* f"{manufacturer_part_id}-{bpnl}"; the serialized part and a new mapping are
\* committed when the with block is left by the return
CreateSerializedPart(serialized_part_create, auto_generate_catalog_part, auto_generate_partner_part) ==
    LET partners == {n \in DOMAIN repos.business_partner :
                        repos.business_partner[n].bpnl
                            = serialized_part_create.business_partner_number}
        db_business_partner == repos.business_partner[CHOOSE n \in partners : TRUE]
        found == FindCatalogPart(repos, serialized_part_create.manufacturer_id,
                                 serialized_part_create.manufacturer_part_id,
                                 auto_generate_catalog_part)
        \* partner_catalog_part_repository.get_by_catalog_part_id_business_partner_id
        Mappings(tables) ==
            {n \in DOMAIN tables.partner_catalog_part :
                /\ tables.partner_catalog_part[n].catalog_part_id = found.db_catalog_part[1]
                /\ tables.partner_catalog_part[n].business_partner_name = db_business_partner.name}
        customer_part_id ==
            IF Mappings(found.tables) = {} /\ serialized_part_create.customer_part_id = ""
            THEN IF serialized_part_create.manufacturer_part_id = "P1" THEN "P1-B1" ELSE "P2-B1"
            ELSE serialized_part_create.customer_part_id
        with_mapping ==
            IF Mappings(found.tables) = {}
            THEN [found.tables EXCEPT !.partner_catalog_part =
                     Append(@, [business_partner_name |-> db_business_partner.name,
                                customer_part_id |-> customer_part_id,
                                catalog_part_id |-> found.db_catalog_part[1]])]
            ELSE found.tables
        db_partner_catalog_part ==
            CHOOSE n \in Mappings(with_mapping) : \A o \in Mappings(with_mapping) : n <= o
        \* serialized_part_repository.get_by_partner_catalog_part_id_part_instance_id
        db_serialized_part ==
            {n \in DOMAIN with_mapping.serialized_part :
                /\ with_mapping.serialized_part[n].partner_catalog_part_id = db_partner_catalog_part
                /\ with_mapping.serialized_part[n].part_instance_id
                       = serialized_part_create.part_instance_id}
        with_serialized_part ==
            IF db_serialized_part = {}
            THEN [with_mapping EXCEPT !.serialized_part =
                     Append(@, [partner_catalog_part_id |-> db_partner_catalog_part,
                                part_instance_id |-> serialized_part_create.part_instance_id])]
            ELSE with_mapping
        call == [op |-> "create_serialized_part",
                 serialized_part_create |-> serialized_part_create,
                 auto_generate_catalog_part |-> auto_generate_catalog_part,
                 auto_generate_partner_part |-> auto_generate_partner_part]
    IN  /\ IF partners = {}
           THEN /\ ret' = call @@ [error |-> "NotFoundError: Business partner does not exist. Please create it first."]
                /\ repos' = repos
           ELSE IF found.error # ""
           THEN /\ ret' = call @@ [error |-> found.error]
                /\ repos' = found.tables
           ELSE IF Mappings(found.tables) = {} /\ ~auto_generate_partner_part
           THEN /\ ret' = call @@ [error |-> "NotFoundError: No shared partner catalog part found for the given catalog part and business partner."]
                /\ repos' = found.tables
           ELSE IF /\ customer_part_id # ""
                   /\ with_mapping.partner_catalog_part[db_partner_catalog_part].customer_part_id
                          # customer_part_id
           THEN /\ ret' = call @@ [error |-> "InvalidError: Customer part ID does not match existing partner catalog part."]
                /\ repos' = found.tables
           ELSE /\ ret' = call @@ [error |-> ""]
                /\ repos' = with_serialized_part
        /\ UNCHANGED <<_tasks, background_tasks, _semantic_id_cache, remote_submodels, threads, locks, logger, verbose, now, known_dtrs, shell_descriptors, ds, client_cursor>>

\* create_partner_catalog_part_mapping
CreatePartnerCatalogPartMapping(partner_catalog_part_create) ==
    LET found == FindCatalogPart(repos, partner_catalog_part_create.manufacturer_id,
                                 partner_catalog_part_create.manufacturer_part_id, FALSE)
        partners == {n \in DOMAIN repos.business_partner :
                        repos.business_partner[n].bpnl
                            = partner_catalog_part_create.business_partner_number}
        db_business_partner == repos.business_partner[CHOOSE n \in partners : TRUE]
        db_partner_catalog_part ==
            {n \in DOMAIN found.tables.partner_catalog_part :
                /\ found.tables.partner_catalog_part[n].catalog_part_id = found.db_catalog_part[1]
                /\ found.tables.partner_catalog_part[n].business_partner_name
                       = db_business_partner.name}
        call == [op |-> "create_partner_catalog_part_mapping",
                 partner_catalog_part_create |-> partner_catalog_part_create]
    IN  /\ IF found.error # ""
           THEN /\ ret' = call @@ [error |-> found.error]
                /\ repos' = found.tables
           ELSE IF partners = {}
           THEN /\ ret' = call @@ [error |-> "NotFoundError: Business partner does not exist. Please create it first."]
                /\ repos' = found.tables
           ELSE IF db_partner_catalog_part # {}
           THEN /\ ret' = call @@ [error |-> "AlreadyExistsError: Partner catalog part already exists."]
                /\ repos' = found.tables
           ELSE /\ ret' = call @@ [error |-> ""]
                /\ repos' = [found.tables EXCEPT !.partner_catalog_part =
                                Append(@, [business_partner_name |-> db_business_partner.name,
                                           customer_part_id |-> partner_catalog_part_create.customer_part_id,
                                           catalog_part_id |-> found.db_catalog_part[1]])]
        /\ UNCHANGED <<_tasks, background_tasks, _semantic_id_cache, remote_submodels, threads, locks, logger, verbose, now, known_dtrs, shell_descriptors, ds, client_cursor>>

\* AssetSyncJob.run: the registrations attempted in their order, the assets
\* registered, and whether run raises. dtr_config tells whether
\* provider.digitalTwinRegistry is configured, agreements holds the semanticid of
\* each agreement ("" for an agreement without one), and outcome what each
\* registration does: it returns an asset id ("ok"), returns no asset id ("none") or
\* raises ("raise")
AssetSyncJobRun(dtr_config, agreements, outcome) ==
    LET \* _sync_dtr_asset: without configuration it returns at once; its except
        \* clause logs every exception of the registration and returns
        sync_dtr_asset ==
            IF ~dtr_config
            THEN [attempted |-> <<>>, registered |-> {}, raised |-> FALSE]
            ELSE [attempted |-> <<"dtr">>,
                  registered |-> IF outcome["dtr"] = "ok" THEN {"dtr"} ELSE {},
                  raised |-> FALSE]
        \* _sync_semantic_assets: the loop over the agreements, each registration in
        \* a try of its own that counts the failure and goes on
        RECURSIVE SyncSemanticAssets(_)
        SyncSemanticAssets(n) ==
            IF n = 0 THEN [attempted |-> <<>>, registered |-> {}, raised |-> FALSE]
            ELSE LET before == SyncSemanticAssets(n - 1)
                     semantic_id == agreements[n]
                 IN IF semantic_id = "" THEN before
                    ELSE [attempted |-> Append(before.attempted, semantic_id),
                          registered |-> before.registered \cup
                              (IF outcome[semantic_id] = "ok" THEN {semantic_id} ELSE {}),
                          raised |-> FALSE]
        sync_semantic_assets == SyncSemanticAssets(Len(agreements))
    IN  \* run re-raises what the two steps raise
        [attempted |-> sync_dtr_asset.attempted \o sync_semantic_assets.attempted,
         registered |-> sync_dtr_asset.registered \cup sync_semantic_assets.registered,
         raised |-> sync_dtr_asset.raised \/ sync_semantic_assets.raised]

\* run_asset_sync_job: exit code 1 when one of the three initialisation steps fails
\* (setup: the database connection, the connector service, the provider manager) or
\* when AssetSyncJob.run raises, else 0
RunAssetSyncJob(setup, dtr_config, agreements, outcome) ==
    LET sync_job == AssetSyncJobRun(dtr_config, agreements, outcome)
        call == [op |-> "run_asset_sync_job", setup |-> setup, dtr_config |-> dtr_config,
                 agreements |-> agreements, outcome |-> outcome]
    IN  /\ IF setup # "ok"
           THEN ret' = call @@ [attempted |-> <<>>, registered |-> {}, exit_code |-> 1]
           ELSE ret' = call @@ [attempted |-> sync_job.attempted,
                                registered |-> sync_job.registered,
                                exit_code |-> IF sync_job.raised THEN 1 ELSE 0]
        /\ UNCHANGED <<repos, _tasks, background_tasks, _semantic_id_cache, remote_submodels, threads, locks, logger, verbose, now, known_dtrs, shell_descriptors, ds, client_cursor>>

NextProvider ==
    \/ \E customer_part_ids \in
             { <<>>, << [customer_part_id |-> "C1", business_partner_name |-> "BP1"] >>,
               << [customer_part_id |-> "", business_partner_name |-> "BP1"] >> } :
          CreateCatalogPart([manufacturer_id |-> "L1", manufacturer_part_id |-> "P1",
                             materials |-> <<>>, customer_part_ids |-> customer_part_ids])
    \/ \E business_partner_number \in {"B1", "B9"}, customer_part_id \in {"", "C1", "C2"},
          part_instance_id \in {"I1", "I2"}, auto_generate \in BOOLEAN \X BOOLEAN :
          CreateSerializedPart([manufacturer_id |-> "L1",
                                manufacturer_part_id |-> "P1",
                                part_instance_id |-> part_instance_id,
                                business_partner_number |-> business_partner_number,
                                customer_part_id |-> customer_part_id],
                               auto_generate[1], auto_generate[2])
    \/ \E business_partner_number \in {"B1", "B9"} :
          CreatePartnerCatalogPartMapping(
              [manufacturer_id |-> "L1", manufacturer_part_id |-> "P1",
               business_partner_number |-> business_partner_number,
               customer_part_id |-> "C1"])
    \/ \E setup \in {"ok", "db_fails", "connector_fails", "manager_fails"},
          dtr_config \in BOOLEAN,
          agreements \in {<<>>, <<"S1">>, <<"S1", "S2">>, <<"", "S2">>},
          outcome \in [{"dtr", "S1", "S2"} -> {"ok", "none", "raise"}] :
          \* what is not attempted has no outcome to vary
          /\ \A a \in {"dtr", "S1", "S2"} :
                 (setup # "ok" \/ (a = "dtr" /\ ~dtr_config)
                               \/ (a # "dtr" /\ \A n \in DOMAIN agreements : agreements[n] # a))
                     => outcome[a] = "ok"
          /\ setup # "ok" => (dtr_config /\ agreements = <<>>)
          /\ RunAssetSyncJob(setup, dtr_config, agreements, outcome)

SpecProvider == Init /\ [][NextProvider]_vars

\* C31: create_serialized_part raises NotFoundError when the business partner does
\* not exist, NotFoundError when the catalog part or the partner mapping is missing
\* and its auto-generate flag is off, and InvalidError when a customerPartId is given
\* that differs from the one of the existing mapping; no error case creates a
\* serialized part, and a call for an existing (mapping, partInstanceId) creates no
\* second one
C31_SerializedPartErrors ==
    [][ret'.op = "create_serialized_part" =>
        LET create == ret'.serialized_part_create
            partner_exists == \E n \in DOMAIN repos.business_partner :
                repos.business_partner[n].bpnl = create.business_partner_number
            CatalogParts(tables) == {n \in DOMAIN tables.catalog_part :
                /\ tables.legal_entity[tables.catalog_part[n].legal_entity_id].bpnl
                       = create.manufacturer_id
                /\ tables.catalog_part[n].manufacturer_part_id = create.manufacturer_part_id}
            catalog_parts == CatalogParts(repos)
            Mapped(tables) == {n \in DOMAIN tables.partner_catalog_part :
                /\ tables.partner_catalog_part[n].catalog_part_id \in CatalogParts(tables)
                /\ \E b \in DOMAIN tables.business_partner :
                       /\ tables.business_partner[b].bpnl = create.business_partner_number
                       /\ tables.business_partner[b].name
                              = tables.partner_catalog_part[n].business_partner_name}
            Serialized(tables) == {n \in DOMAIN tables.serialized_part :
                /\ tables.serialized_part[n].partner_catalog_part_id \in Mapped(tables)
                /\ tables.serialized_part[n].part_instance_id = create.part_instance_id}
        IN /\ ~partner_exists =>
                  ret'.error = "NotFoundError: Business partner does not exist. Please create it first."
           /\ (partner_exists /\ catalog_parts = {} /\ ~ret'.auto_generate_catalog_part) =>
                  ret'.error = "NotFoundError: Catalog part not found."
           /\ (/\ partner_exists
               /\ catalog_parts # {} \/ ret'.auto_generate_catalog_part
               /\ Mapped(repos) = {}
               /\ ~ret'.auto_generate_partner_part) =>
                  ret'.error = "NotFoundError: No shared partner catalog part found for the given catalog part and business partner."
           /\ (/\ partner_exists
               /\ create.customer_part_id # ""
               /\ \E n \in Mapped(repos) :
                      repos.partner_catalog_part[n].customer_part_id # create.customer_part_id) =>
                  ret'.error = "InvalidError: Customer part ID does not match existing partner catalog part."
           /\ ret'.error # "" => repos'.serialized_part = repos.serialized_part
           /\ Serialized(repos) # {} => repos'.serialized_part = repos.serialized_part
           /\ ret'.error = "" =>
                  /\ Cardinality(Serialized(repos')) = 1
                  /\ Len(repos'.serialized_part) <= Len(repos.serialized_part) + 1]_vars

\* a call met an existing mapping with another customer part id while serialized
\* parts exist
C31_Witness ==
    /\ ret.op = "create_serialized_part"
    /\ ret.error = "InvalidError: Customer part ID does not match existing partner catalog part."
    /\ Len(repos.serialized_part) = 2

\* C40: the part management writes are all-or-nothing: when create_catalog_part,
\* create_serialized_part or create_partner_catalog_part_mapping raises (by itself or
\* through _find_catalog_part), the persisted legal entities, catalog parts and
\* partner mappings are the ones from before the call
C40_WritesAllOrNothing ==
    [][(/\ ret'.op \in {"create_catalog_part", "create_serialized_part",
                        "create_partner_catalog_part_mapping"}
        /\ ret'.error # "") =>
            /\ repos'.legal_entity = repos.legal_entity
            /\ repos'.catalog_part = repos.catalog_part
            /\ repos'.partner_catalog_part = repos.partner_catalog_part]_vars

\* C37: run_asset_sync_job returns exit code 0 only if the DTR asset and the
\* semantic asset of every agreement were registered; a registration that returns no
\* asset id or raises makes AssetSyncJob.run raise and the exit code 1; the failure of
\* one semantic asset does not keep the remaining ones from being attempted
C37_ExitCodeTellsRegistration ==
    ret.op = "run_asset_sync_job" =>
        LET semantic_ids == {ret.agreements[n] : n \in DOMAIN ret.agreements} \ {""}
        IN /\ ret.exit_code = 0 => ({"dtr"} \cup semantic_ids) \subseteq ret.registered
           /\ (\E a \in Range(ret.attempted) : ret.outcome[a] # "ok") => ret.exit_code = 1
           /\ ret.setup = "ok" => semantic_ids \subseteq Range(ret.attempted)

----------------------------------------------------------------------------
(* The threads of the discovery engine and its three re-entrant locks.  A     *)
(* program is the sequence of the steps of an engine call that matter to the  *)
(* locks: an outbound call, the acquisition and the release of a lock (the    *)
(* entry and the exit of a with block), and a write to the DTR cache, to the  *)
(* Shell Index or to a result list shared by worker threads.                  *)

\* a program that makes its outbound call inside the with block of the DTR lock
ProgramCallUnderLock(op) ==
    << <<"acquire", "_dtrs_lock">>, <<"call", "delete_connection">>,
       <<"write", "del_dtr">>, <<"release", "_dtrs_lock">> >>

\* the steps of the engine calls
PROGRAM(op) ==
    CASE op = "get_dtrs" ->
           \* get_dtrs: the connectors and their catalogs, then add_dtr
           << <<"call", "get_connectors">>, <<"call", "get_catalog">>,
              <<"acquire", "_dtrs_lock">>, <<"write", "add_dtr">>,
              <<"release", "_dtrs_lock">> >>
      [] op = "delete_dtr" ->
           << <<"acquire", "_dtrs_lock">>, <<"write", "del_dtr">>,
              <<"release", "_dtrs_lock">> >>
      [] op = "purge_bpn" ->
           << <<"acquire", "_dtrs_lock">>, <<"write", "purge_bpn">>,
              <<"release", "_dtrs_lock">> >>
      [] op = "purge_cache" ->
           << <<"acquire", "_dtrs_lock">>, <<"acquire", "_shells_lock">>,
              <<"write", "clear_dtrs">>, <<"write", "clear_shells">>,
              <<"release", "_shells_lock">>, <<"release", "_dtrs_lock">> >>
      [] op = "_process_dtr_parallel" ->
           \* a worker of discover_shells whose attempt succeeds: do_dsp, the lookup,
           \* the descriptors, the loop that stores them in self.shell_descriptors,
           \* and the append of the result to the list the workers share
           << <<"call", "do_dsp">>, <<"call", "lookup">>, <<"call", "fetch_shell_descriptors">>,
              <<"write", "store_shell">>, <<"acquire", "_list_lock">>,
              <<"write", "append">>, <<"release", "_list_lock">> >>
      [] op = "_delete_connection" ->
           \* a worker whose attempt fails: do_dsp, then _delete_connection
           << <<"call", "do_dsp">>, <<"call", "delete_connection">>,
              <<"acquire", "_dtrs_lock">>, <<"write", "del_dtr">>,
              <<"release", "_dtrs_lock">> >>
      [] op = "fetch_single_shell" ->
           << <<"call", "get_shell_descriptor">>, <<"acquire", "_list_lock">>,
              <<"write", "append">>, <<"release", "_list_lock">> >>

\* thread t takes one step: the first step of the call op when it is idle, else the
\* next step of the call it is in. Without a logger the first self.logger.debug of a
\* call raises before any step. An RLock is taken when it is free or held by the
\* thread itself; a thread that finds it held by another thread waits
ThreadStep(t, op) ==
    LET th == IF threads[t].op = "idle" THEN [op |-> op, pc |-> 1] ELSE threads[t]
        program == PROGRAM(th.op)
        step == program[th.pc]
        advanced == [threads EXCEPT ![t] = IF th.pc = Len(program)
                                           THEN [op |-> "idle", pc |-> 0]
                                           ELSE [op |-> th.op, pc |-> th.pc + 1]]
    IN  /\ logger
        /\ ds.pc = "idle"
        /\ threads' = advanced
        /\ IF step[1] = "acquire"
           THEN /\ locks[step[2]].owner \in {<<>>, <<t>>}
                /\ locks' = [locks EXCEPT ![step[2]] =
                                [owner |-> <<t>>, count |-> @.count + 1]]
           ELSE IF step[1] = "release"
           THEN locks' = [locks EXCEPT ![step[2]] =
                             IF @.count = 1 THEN [owner |-> <<>>, count |-> 0]
                             ELSE [owner |-> @.owner, count |-> @.count - 1]]
           ELSE locks' = locks
        /\ known_dtrs' =
               IF step = <<"write", "add_dtr">>
               THEN AddDtrCache(known_dtrs, logger, "B1", "u1", "a1", <<"p1">>, now)
               ELSE IF step = <<"write", "del_dtr">>
               THEN DeleteDtrCache(known_dtrs, "B1", "a1")
               ELSE IF step = <<"write", "purge_bpn">> THEN PurgeBpnCache(known_dtrs, "B1")
               ELSE IF step = <<"write", "clear_dtrs">> THEN <<>>
               ELSE known_dtrs
        /\ shell_descriptors' =
               IF step = <<"write", "store_shell">>
               THEN StoredShells(shell_descriptors, "a1", {"s1"})
               ELSE IF step = <<"write", "clear_shells">> THEN <<>>
               ELSE shell_descriptors
        /\ UNCHANGED <<_tasks, background_tasks, _semantic_id_cache, remote_submodels, repos, logger, verbose, now, ret, ds, client_cursor>>

NextLocks ==
    \E t \in {"T1", "T2"},
       op \in {"get_dtrs", "delete_dtr", "purge_bpn", "purge_cache", "_process_dtr_parallel",
               "_delete_connection", "fetch_single_shell"} :
        ThreadStep(t, op)

SpecLocks == Init /\ [][NextLocks]_vars

\* C34: every write to the Shell Index, the insertions of discover_shells and the
\* clear of purge_cache, is made by a thread that holds the Shell Index lock, so no
\* two threads are about to modify the index at the same time
C34_IndexWrittenUnderItsLock ==
    LET WritesIndex(t) ==
            /\ threads[t].op # "idle"
            /\ PROGRAM(threads[t].op)[threads[t].pc] \in
                   {<<"write", "store_shell">>, <<"write", "clear_shells">>}
    IN /\ \A t \in DOMAIN threads : WritesIndex(t) => locks["_shells_lock"].owner = <<t>>
       /\ \A t, u \in DOMAIN threads : (WritesIndex(t) /\ WritesIndex(u)) => t = u

\* C35: a thread holds none of the three locks while an outbound call of it is in
\* progress; the locks are always taken in the same order (DTR lock, Shell Index lock,
\* list lock); and no deadlock is reachable: a thread that waits for a lock waits for
\* a thread that is not waiting itself
C35_NoLockAcrossCallsNoDeadlock ==
    LET Step(t) == PROGRAM(threads[t].op)[threads[t].pc]
        Busy(t) == threads[t].op # "idle"
        Held(t) == {l \in DOMAIN locks : locks[l].owner = <<t>>}
        Rank(l) == CASE l = "_dtrs_lock" -> 1 [] l = "_shells_lock" -> 2 [] l = "_list_lock" -> 3
        Waits(t) == /\ Busy(t)
                    /\ Step(t)[1] = "acquire"
                    /\ locks[Step(t)[2]].owner \notin {<<>>, <<t>>}
    IN \A t \in DOMAIN threads :
          /\ (Busy(t) /\ Step(t)[1] = "call") => Held(t) = {}
          /\ (Busy(t) /\ Step(t)[1] = "acquire") =>
                 \A l \in Held(t) : Rank(l) < Rank(Step(t)[2])
          /\ Waits(t) => ~Waits(locks[Step(t)[2]].owner[1])

\* a thread holds the DTR lock and the Shell Index lock while the other one, back
\* from its outbound calls, waits for the DTR lock
C35_Witness ==
    \E t, u \in DOMAIN threads :
        /\ locks["_dtrs_lock"].owner = <<t>>
        /\ locks["_shells_lock"].owner = <<t>>
        /\ threads[u].op = "_delete_connection"
        /\ PROGRAM(threads[u].op)[threads[u].pc] = <<"acquire", "_dtrs_lock">>

====
